---- MODULE Spec2Model ----
(***************************************************************************)
(* A model of the processing layer of algorithmic_ink_studio:              *)
(*   - processing/lienzo.py       the canvas pixel store (class Lienzo)    *)
(*   - processing/brush_engine.py the brush shape lookup, the ink stamp    *)
(*                                helper and the stroke segment processor  *)
(*                                                                         *)
(* NumPy arrays are modelled as records                                    *)
(*     [shape, dtype, contig, px]                                          *)
(* with px[r][c] the sequence of the samples of pixel (row r, column c),   *)
(* rows and columns counted from 0 as in the source.  A 2-D array (H x W)  *)
(* has one sample per pixel and shape <<H, W>>.  Array objects live in a   *)
(* two-cell heap so that two references to the same object can be told     *)
(* from two equal copies.                                                  *)
(***************************************************************************)
EXTENDS Integers, Sequences, FiniteSets, TLC

VARIABLES
    lz_width,      \* Lienzo._width
    lz_height,     \* Lienzo._height
    heap,          \* the array objects: heap[id] is the array with identity id
    canvas_data,   \* Lienzo._canvas_data: the id of the array the canvas owns
    caller_arr,    \* the id of the array the caller holds (0: none)
    last_call,     \* the last call: its name, arguments, the state before it
    prev_call,     \* the call before the last one
    ncalls,        \* number of calls made so far
    brush_shapes,  \* brush_engine._brush_shapes: name -> shape of the base mask
    shape_call,    \* the last get_scaled_rotated_brush_shape call and its result
    eng,           \* the brush engine call in progress: position, arguments, locals
    local_area,    \* the local buffer the ink helper draws on
    stamp,         \* the last stamp: the buffer before it, its centre, its effect
    widget,        \* InkCanvasWidget: its stroke state and the calls it has made
    main_window    \* MainWindow: the undo history and the undo/redo actions

lienzoVars == <<lz_width, lz_height, heap, canvas_data, caller_arr>>

engineVars == <<brush_shapes, shape_call, eng, local_area, stamp>>

vars == <<lz_width, lz_height, heap, canvas_data, caller_arr,
          last_call, prev_call, ncalls,
          engineVars, widget, main_window>>

(***************************************************************************)
(* Bounds of the model.                                                    *)
(***************************************************************************)
MaxCalls == 3

\* Brush engine calls (segments, direct helper calls) in one behaviour.
MaxStrokes == 1

\* Mask and noise samples take the values 0, 1/(2 Levels), ..., 1.
Levels == 2

\* Strokes already drawn when a behaviour of the history starts.
MaxDrawn == 98

\* Strokes drawn, undo/redo steps and history resets in one behaviour.
MaxSaves == 3

MaxMoves == 3

MaxResets == 1

\* MAX_HISTORY_STATES of _save_history_state
MAX_HISTORY_STATES == 100

(***************************************************************************)
(* Arithmetic helpers (Python's min, max, numpy.clip, C integer casts).    *)
(***************************************************************************)
Min(a, b) == IF a <= b THEN a ELSE b

Max(a, b) == IF a >= b THEN a ELSE b

NpClip(v, lo, hi) == Max(lo, Min(hi, v))

\* ndarray.astype(np.uint8) on an integer array: the C cast, modulo 256.
AsTypeU8(v) == v % 256

RECURSIVE SumFn(_, _, _)
SumFn(f, lo, hi) == IF lo > hi THEN 0 ELSE f[lo] + SumFn(f, lo + 1, hi)

(***************************************************************************)
(* Arrays.                                                                 *)
(***************************************************************************)
ArrIds == {1, 2}

NoneArr == [shape |-> <<>>, dtype |-> "none", contig |-> TRUE, px |-> <<>>]

IsNone(a) == a.dtype = "none"

\* ndarray.size: the product of the dimensions.
RECURSIVE ShapeProduct(_)
ShapeProduct(s) == IF s = <<>> THEN 1 ELSE Head(s) * ShapeProduct(Tail(s))

ArrSize(a) == ShapeProduct(a.shape)

\* np.full((height, width, 3), color, dtype=np.uint8)
NpFull(height, width, color) ==
    [shape |-> <<height, width, 3>>, dtype |-> "uint8", contig |-> TRUE,
     px |-> [r \in 0..(height - 1) |-> [c \in 0..(width - 1) |-> color]]]

\* np.empty((0, 0, 3), dtype=np.uint8)
EmptyBGR == [shape |-> <<0, 0, 3>>, dtype |-> "uint8", contig |-> TRUE, px |-> <<>>]

(***************************************************************************)
(* Lienzo.__init__                                                         *)
(***************************************************************************)
White == <<255, 255, 255>>

\* color validation of __init__ and fill: a 3-sequence, each sample clipped.
ValidColor(color) ==
    LET c == IF Len(color) # 3 THEN White ELSE color
    IN  <<NpClip(c[1], 0, 255), NpClip(c[2], 0, 255), NpClip(c[3], 0, 255)>>

CtorWidth(width, height) == IF width <= 0 \/ height <= 0 THEN 1 ELSE width

CtorHeight(width, height) == IF width <= 0 \/ height <= 0 THEN 1 ELSE height

CtorDataSwapped(width, height, color) ==
    NpFull(CtorWidth(width, height), CtorHeight(width, height), ValidColor(color))

CtorData(width, height, color) ==
    NpFull(CtorHeight(width, height), CtorWidth(width, height), ValidColor(color))

(***************************************************************************)
(* Lienzo.crop_area and Lienzo.paste_area                                  *)
(***************************************************************************)
ClipRectOffByOne(rect, width, height) ==
    [x1 |-> Max(0, rect[1]), y1 |-> Max(0, rect[2]),
     x2 |-> Min(width - 1, rect[1] + rect[3]),
     y2 |-> Min(height - 1, rect[2] + rect[4])]

\* x1, y1, x2, y2 of crop_area and paste_area: rect = (x, y, w, h) clipped.
ClipRect(rect, width, height) ==
    [x1 |-> Max(0, rect[1]), y1 |-> Max(0, rect[2]),
     x2 |-> Min(width, rect[1] + rect[3]),
     y2 |-> Min(height, rect[2] + rect[4])]

CanvasDataValid(cd) == ~IsNone(cd) /\ Len(cd.shape) = 3 /\ cd.shape[3] = 3

\* self._canvas_data[y1:y2, x1:x2].copy()
SliceCopy(cd, y1, y2, x1, x2) ==
    [shape |-> <<y2 - y1, x2 - x1, 3>>, dtype |-> cd.dtype, contig |-> TRUE,
     px |-> [r \in 0..(y2 - y1 - 1) |-> [c \in 0..(x2 - x1 - 1) |-> cd.px[y1 + r][x1 + c]]]]

CropArea(cd, rect, width, height) ==
    LET k == ClipRect(rect, width, height)
    IN  IF k.x2 <= k.x1 \/ k.y2 <= k.y1 THEN EmptyBGR
        ELSE IF CanvasDataValid(cd) THEN SliceCopy(cd, k.y1, k.y2, k.x1, k.x2)
        ELSE EmptyBGR

PasteAcceptsAnyChannels(cd, rect, data, width, height) ==
    LET k == ClipRect(rect, width, height)
    IN  /\ ~IsNone(data)
        /\ ArrSize(data) # 0
        /\ CanvasDataValid(cd)
        /\ k.y2 - k.y1 > 0
        /\ k.x2 - k.x1 > 0
        /\ Len(data.shape) = 3
        /\ data.shape[1] = k.y2 - k.y1
        /\ data.shape[2] = k.x2 - k.x1
        /\ data.shape[3] \in {1, 3}

\* The guards of paste_area: TRUE when the paste goes on to write.
PasteAccepts(cd, rect, data, width, height) ==
    LET k == ClipRect(rect, width, height)
    IN  /\ ~IsNone(data)
        /\ ArrSize(data) # 0
        /\ CanvasDataValid(cd)
        /\ k.y2 - k.y1 > 0
        /\ k.x2 - k.x1 > 0
        /\ data.shape = <<k.y2 - k.y1, k.x2 - k.x1, 3>>

\* np.clip(data, 0, 255).astype(np.uint8) for a non-uint8 buffer.
PasteSample(data, v) == IF data.dtype # "uint8" THEN NpClip(v, 0, 255) ELSE v

\* numpy's assignment of a pixel of the buffer to a 3-sample canvas pixel
\* (a 1-sample pixel is broadcast over the three channels).
AssignedPixel(data, p) ==
    IF Len(p) = 1
    THEN <<PasteSample(data, p[1]), PasteSample(data, p[1]), PasteSample(data, p[1])>>
    ELSE [i \in 1..3 |-> PasteSample(data, p[i])]

PasteWrongOffset(cd, rect, data, width, height) ==
    LET k == ClipRect(rect, width, height)
    IN  IF ~PasteAccepts(cd, rect, data, width, height) THEN cd
        ELSE [cd EXCEPT !.px =
                [r \in DOMAIN cd.px |-> [c \in DOMAIN cd.px[r] |->
                    IF r < k.y2 - k.y1 /\ c < k.x2 - k.x1
                    THEN AssignedPixel(data, data.px[r][c])
                    ELSE cd.px[r][c]]]]

\* The canvas array after paste_area(rect, data):
\* self._canvas_data[y1:y2, x1:x2] = np.ascontiguousarray(data)
PasteArea(cd, rect, data, width, height) ==
    LET k == ClipRect(rect, width, height)
    IN  IF ~PasteAccepts(cd, rect, data, width, height) THEN cd
        ELSE [cd EXCEPT !.px =
                [r \in DOMAIN cd.px |-> [c \in DOMAIN cd.px[r] |->
                    IF k.y1 <= r /\ r < k.y2 /\ k.x1 <= c /\ c < k.x2
                    THEN AssignedPixel(data, data.px[r - k.y1][c - k.x1])
                    ELSE cd.px[r][c]]]]

(***************************************************************************)
(* Lienzo.fill                                                             *)
(***************************************************************************)
FillData(cd, color) ==
    IF CanvasDataValid(cd)
    THEN [cd EXCEPT !.px = [r \in DOMAIN cd.px |-> [c \in DOMAIN cd.px[r] |-> ValidColor(color)]]]
    ELSE cd

(***************************************************************************)
(* Lienzo.set_canvas_data                                                  *)
(***************************************************************************)
\* data.astype(np.uint8), applied by the code only when data.dtype != np.uint8.
AsTypeU8Arr(a) ==
    IF a.dtype = "uint8" THEN a
    ELSE [a EXCEPT !.dtype = "uint8", !.contig = TRUE,
                   !.px = [r \in DOMAIN a.px |-> [c \in DOMAIN a.px[r] |->
                             [i \in DOMAIN a.px[r][c] |-> AsTypeU8(a.px[r][c][i])]]]]

\* cv2.cvtColor(data, cv2.COLOR_GRAY2BGR): the gray sample in each of 3 channels.
Gray2BGR(a) ==
    [shape |-> <<a.shape[1], a.shape[2], 3>>, dtype |-> a.dtype, contig |-> TRUE,
     px |-> [r \in DOMAIN a.px |-> [c \in DOMAIN a.px[r] |->
               <<a.px[r][c][1], a.px[r][c][1], a.px[r][c][1]>>]]]

BGRA2BGRDropsFirst(a) ==
    [shape |-> <<a.shape[1], a.shape[2], 3>>, dtype |-> a.dtype, contig |-> TRUE,
     px |-> [r \in DOMAIN a.px |-> [c \in DOMAIN a.px[r] |-> SubSeq(a.px[r][c], 2, 4)]]]

\* cv2.cvtColor(data, cv2.COLOR_BGRA2BGR): the alpha (4th) sample dropped.
BGRA2BGR(a) ==
    [shape |-> <<a.shape[1], a.shape[2], 3>>, dtype |-> a.dtype, contig |-> TRUE,
     px |-> [r \in DOMAIN a.px |-> [c \in DOMAIN a.px[r] |-> SubSeq(a.px[r][c], 1, 3)]]]

\* The colour conversion branch of set_canvas_data.  same: the result is still
\* the object that was passed in (no new array was made).
ConvertToBGR(data) ==
    IF Len(data.shape) = 2 \/ data.shape[3] = 1
    THEN [ok |-> TRUE, arr |-> Gray2BGR(AsTypeU8Arr(data)), same |-> FALSE]
    ELSE IF data.shape[3] = 3
    THEN [ok |-> TRUE, arr |-> AsTypeU8Arr(data), same |-> data.dtype = "uint8"]
    ELSE IF data.shape[3] = 4
    THEN [ok |-> TRUE, arr |-> BGRA2BGR(AsTypeU8Arr(data)), same |-> FALSE]
    ELSE [ok |-> FALSE, arr |-> data, same |-> TRUE]

\* The source indices that target index t of a resampled axis is computed from:
\* a block of n \div m source samples when shrinking n to m, the nearest source
\* sample when enlarging.
SrcIdx(t, n, m) ==
    IF n >= m THEN {t * (n \div m) + j : j \in 0..((n \div m) - 1)}
    ELSE {(t * n) \div m}

\* The mean of sample i over the source block of target pixel (r, c).
BlockMean(a, r, c, i, th, tw) ==
    LET rows == SrcIdx(r, a.shape[1], th)
        cols == SrcIdx(c, a.shape[2], tw)
        lo(S) == CHOOSE x \in S : \A y \in S : x <= y
        hi(S) == CHOOSE x \in S : \A y \in S : x >= y
        rowsum == [y \in rows |-> SumFn([x \in cols |-> a.px[y][x][i]], lo(cols), hi(cols))]
    IN  SumFn(rowsum, lo(rows), hi(rows)) \div (Cardinality(rows) * Cardinality(cols))

\* cv2.resize(data, (target_width, target_height), interpolation=...) for a
\* uint8 H x W x 3 source.  INTER_AREA (source wider than the target) averages
\* the source block of each target pixel; INTER_LINEAR from a one-pixel-wide
\* axis repeats that pixel.  Exact for sources whose sides are 1 or a multiple
\* of the target's and whose block sums divide evenly, which is what
\* SetInputs holds.
CvResize(a, tw, th) ==
    [shape |-> <<th, tw, 3>>, dtype |-> a.dtype, contig |-> TRUE,
     px |-> [r \in 0..(th - 1) |-> [c \in 0..(tw - 1) |->
               [i \in 1..3 |-> BlockMean(a, r, c, i, th, tw)]]]]

Unchanged(cd) == [set |-> FALSE, arr |-> cd, alias |-> FALSE]

\* set_canvas_data(data) on a canvas holding cd: whether self._canvas_data is
\* assigned, the array assigned, and whether that array is the very object
\* passed in (np.ascontiguousarray returns its argument when it is already a
\* C-contiguous array).  resize_ok: cv2.resize returned (no exception).
SetCanvasDataResult(cd, data, th, tw, resize_ok) ==
    IF IsNone(data) \/ ArrSize(data) = 0 THEN Unchanged(cd)
    ELSE IF Len(data.shape) \notin {2, 3} THEN Unchanged(cd)
    ELSE LET conv == ConvertToBGR(data)
             bgr  == conv.arr
             needs_resize == <<bgr.shape[1], bgr.shape[2]>> # <<th, tw>>
         IN  IF ~conv.ok THEN Unchanged(cd)
             ELSE IF Len(bgr.shape) # 3 \/ bgr.shape[3] # 3 THEN Unchanged(cd)
             ELSE IF needs_resize /\ (tw <= 0 \/ th <= 0 \/ data.shape[2] <= 0 \/ data.shape[1] <= 0)
             THEN Unchanged(cd)
             ELSE IF needs_resize /\ ~resize_ok THEN Unchanged(cd)
             ELSE LET final == IF needs_resize THEN CvResize(bgr, tw, th) ELSE bgr
                      same  == conv.same /\ ~needs_resize
                  IN  IF final.shape = <<th, tw, 3>> /\ final.dtype = "uint8"
                      THEN [set |-> TRUE,
                            arr |-> [final EXCEPT !.contig = TRUE],
                            alias |-> same /\ final.contig]
                      ELSE Unchanged(cd)

(***************************************************************************)
(* brush_engine: the brush shape library.                                  *)
(* A mask is known by its shape <<rows, columns>>; <<>> stands for None.   *)
(***************************************************************************)
\* size = 128 in load_brush_shapes: the side of the synthetic round mask.
SynthSize == 128

NoShape == <<>>

\* load_brush_shapes(): the dictionary after the call.  asset says what is on
\* disk for 'brush_round.png': no resources folder, no file, a file cv2.imread
\* cannot decode, or an image of asset.dims = <<rows, columns>>.
LoadBrushShapes(asset) ==
    LET loaded == IF asset.kind = "image" THEN asset.dims ELSE NoShape
    IN  [name \in {"round"} |->
            IF loaded = NoShape THEN <<SynthSize, SynthSize>> ELSE loaded]

\* _brush_shapes.get(brush_type, _brush_shapes.get('round'))
ShapeLookup(shapes, brush_type) ==
    IF brush_type \in DOMAIN shapes THEN shapes[brush_type]
    ELSE IF "round" \in DOMAIN shapes THEN shapes["round"]
    ELSE NoShape

\* get_scaled_rotated_brush_shape(brush_type, target_size, angle_degrees): the
\* shape of the mask returned, or raised when the call ends in an exception.
\* With current_size == scale_target_size the code assigns rotated_shape_opacity
\* and then reads resized_shape_opacity, which was never assigned: Python
\* raises UnboundLocalError at line 139 (angle # 0) or at line 151 (angle = 0).
\* resize_ok: cv2.resize returned; on cv2.error the base mask is returned.
GetScaledRotated(shapes, brush_type, target_size, angle, resize_ok) ==
    LET base  == ShapeLookup(shapes, brush_type)
        scale == Max(1, target_size)
    IN  IF base = NoShape \/ base[1] * base[2] = 0
        THEN [raised |-> FALSE, shape |-> <<scale, scale>>]
        ELSE IF base[1] # scale
        THEN IF resize_ok THEN [raised |-> FALSE, shape |-> <<scale, scale>>]
             ELSE [raised |-> FALSE, shape |-> base]
        ELSE [raised |-> TRUE, shape |-> NoShape]

NoShapeCall == [brush_type |-> "", target_size |-> 0, angle |-> 0,
                resize_ok |-> TRUE, raised |-> FALSE, shape |-> NoShape]

(***************************************************************************)
(* brush_engine: ink stamping.                                             *)
(* Opacities (mask and noise samples) are multiples of 1 / Grain, held as  *)
(* the integer numerator; the arithmetic below is exact.                   *)
(***************************************************************************)
Grain == 2 * Levels

Abs(v) == IF v < 0 THEN -v ELSE v

\* int(x / n) for n > 0: Python's int() truncates toward zero.
TruncDiv(a, n) == IF a >= 0 THEN a \div n ELSE -((-a) \div n)

\* brush_params.get(key, default)
ParamGet(params, key, default) == IF key \in DOMAIN params THEN params[key] ELSE default

BrushSize(params) == Max(1, ParamGet(params, "size", 15))

Density(params) == NpClip(ParamGet(params, "density", 60), 0, 100)

Feibai(params) == NpClip(ParamGet(params, "feibai", 20), 0, 100)

BrushType(params) == ParamGet(params, "type", "round")

NumStepsManhattan(p1, p2) == Max(1, Abs(p2[1] - p1[1]) + Abs(p2[2] - p1[2]))

\* num_steps_rel
NumSteps(p1, p2) == Max(1, Max(Abs(p2[1] - p1[1]), Abs(p2[2] - p1[2])))

\* math.degrees(math.atan2(dy, dx)), to the nearest degree for the directions
\* used; 0 when dx = dy = 0.  Only angle # 0 decides a branch
\* (get_scaled_rotated_brush_shape line 139).
AngleDegrees(dx, dy) ==
    LET a == IF dy = 0 THEN 0
             ELSE IF dx = 0 THEN 90
             ELSE IF Abs(dx) = Abs(dy) THEN 45
             ELSE IF Abs(dy) < Abs(dx) THEN 27 ELSE 63
        q == IF dx < 0 THEN 180 - a ELSE a
    IN  IF dy < 0 THEN -q ELSE q

\* The double p + (float(i) / n) * d lies on the zero side of the integer
\* p + i * d / n.  For n <= 22 this happens only at n = 22, i = 15, |d| = 22:
\* 15 / 22 rounds down, (15 / 22) * 22 is 14.999999999999998, and the sum with
\* p keeps the deficit while its magnitude stays below 16.
FloatShort(p, d, n, i) ==
    /\ n = 22 /\ i = 15 /\ Abs(d) = 22
    /\ IF d > 0 THEN p \in -14..1 ELSE p \in -1..14

\* int(p + (float(i) / n) * d) for n <= 22 (lines 462-466)
InterpolatedCoord(p, d, n, i) ==
    IF FloatShort(p, d, n, i)
    THEN p + (IF d > 0 THEN 14 ELSE -14)
    ELSE TruncDiv(p * n + i * d, n)

\* (px_rel, py_rel) of iteration i: int(p1 + (i / num_steps) * d)
StampCentre(p1, p2, i) ==
    LET n == NumSteps(p1, p2)
    IN  <<InterpolatedCoord(p1[1], p2[1] - p1[1], n, i),
          InterpolatedCoord(p1[2], p2[2] - p1[2], n, i)>>

\* The overlap of the brush square centred at (cx, cy) with the local area:
\* slice_overlap_x1.. and the top-left corner of the brush.
StampOverlap(cx, cy, brush_size, area_width, area_height) ==
    LET xs == cx - brush_size \div 2
        ys == cy - brush_size \div 2
    IN  [x1 |-> Max(0, xs), y1 |-> Max(0, ys),
         x2 |-> Min(area_width, xs + brush_size),
         y2 |-> Min(area_height, ys + brush_size),
         bx |-> xs, by |-> ys]

\* a[y1:y2, x1:x2].shape for an array of rank 2 or 3
SliceShape(a, ov) == <<ov.y2 - ov.y1, ov.x2 - ov.x1>> \o SubSeq(a.shape, 3, Len(a.shape))

\* np.ones_like(a, dtype=np.float32) * 0.5
HalfLike(a) ==
    [shape |-> a.shape, dtype |-> "float32", contig |-> TRUE,
     px |-> [r \in DOMAIN a.px |-> [c \in DOMAIN a.px[r] |->
               [k \in DOMAIN a.px[r][c] |-> Levels]]]]

\* The noise the helper uses (lines 436-438).
EffectiveNoise(local, noise) ==
    IF IsNone(noise) \/ noise.shape # local.shape THEN HalfLike(local) ELSE noise

\* 255.0 * (1.0 - effective_pixel_opacity) truncated to an integer, where
\* effective_pixel_opacity = (density / 100) * m * (1 - (feibai / 100) * (1 - n))
\* for the mask sample m / Grain and the noise sample n / Grain.  fuzz: the
\* float product fell just below an integer the exact value reaches.
TargetShade(density, feibai, m, n, fuzz) ==
    LET den   == 100 * Grain * 100 * Grain
        num   == density * m * (100 * Grain - feibai * (Grain - n))
        exact == (255 * (den - num)) \div den
    IN  IF fuzz /\ num > 0 /\ exact > 0 /\ (255 * (den - num)) % den = 0
        THEN exact - 1 ELSE exact

BlendBrightens(old, target) == Max(old, target)

\* np.minimum(old.astype(np.float32), target_shade_float).astype(np.uint8)
Blend(old, target) == AsTypeU8(Min(old, target))

StampLocalWholeBuffer(local, noise, mask, centre, brush_size, density, feibai, fuzz) ==
    [local EXCEPT !.px =
        [r \in DOMAIN local.px |-> [c \in DOMAIN local.px[r] |->
            [k \in DOMAIN local.px[r][c] |->
                Blend(local.px[r][c][k],
                      TargetShade(density, feibai, Grain, Grain, fuzz))]]]]

\* One iteration of the loop of _apply_ink_to_local_area (lines 476-517) with
\* the mask returned for it: the local buffer after it.
StampLocal(local, noise, mask, centre, brush_size, density, feibai, fuzz) ==
    LET ov == StampOverlap(centre[1], centre[2], brush_size,
                           local.shape[2], local.shape[1])
        inside(r, c) == r >= ov.y1 /\ r < ov.y2 /\ c >= ov.x1 /\ c < ov.x2
        new(r, c, k) == Blend(local.px[r][c][k],
                              TargetShade(density, feibai,
                                          mask.px[r - ov.by][c - ov.bx][1],
                                          noise.px[r][c][k], fuzz))
    IN  IF IsNone(mask) \/ ArrSize(mask) = 0 \/ mask.shape # <<brush_size, brush_size>>
        THEN local
        ELSE IF ov.x2 <= ov.x1 \/ ov.y2 <= ov.y1 THEN local
        ELSE IF SliceShape(local, ov) # <<ov.y2 - ov.y1, ov.x2 - ov.x1>>
                \/ SliceShape(local, ov) # SliceShape(noise, ov)
        THEN local
        ELSE [local EXCEPT !.px =
                [r \in DOMAIN local.px |-> [c \in DOMAIN local.px[r] |->
                    IF inside(r, c)
                    THEN [k \in DOMAIN local.px[r][c] |-> new(r, c, k)]
                    ELSE local.px[r][c]]]]

QRectOnePixel == <<0, 0, 1, 1>>

\* QRect(): the null rectangle.
QRectNull == <<0, 0, 0, 0>>

ProcessRectBoundingBox(p1, p2, brush_size, canvas_width, canvas_height) ==
    LET x1 == Max(0, Min(p1[1], p2[1]))
        y1 == Max(0, Min(p1[2], p2[2]))
        x2 == Min(canvas_width - 1, Max(p1[1], p2[1]))
        y2 == Min(canvas_height - 1, Max(p1[2], p2[2]))
    IN  <<x1, y1, x2 - x1 + 1, y2 - y1 + 1>>

\* process_rect_canvas of apply_basic_brush_stroke_segment (lines 546-581).
ProcessRect(p1, p2, brush_size, canvas_width, canvas_height) ==
    LET radius == brush_size \div 2
        x1 == Max(0, Min(p1[1], p2[1]) - radius)
        y1 == Max(0, Min(p1[2], p2[2]) - radius)
        x2 == Min(canvas_width - 1, Max(p1[1], p2[1]) + radius)
        y2 == Min(canvas_height - 1, Max(p1[2], p2[2]) + radius)
    IN  <<x1, y1, x2 - x1 + 1, y2 - y1 + 1>>

\* QRect.isNull(): width and height are both 0.
QRectIsNull(r) == r[3] = 0 /\ r[4] = 0

\* Lienzo.get_size(): (width, height).
GetSize(width, height) == <<width, height>>

\* estimated_blur_radius of apply_localized_blur (lines 686-696):
\* int(max(0.5, wetness / 100 * 20) * 2.5), at least brush_size // 2 and 5.
\* The float product equals the exact one for the wetness values used.
BlurRadius(wetness, brush_size) ==
    LET by_sigma == IF 2 * wetness >= 5 THEN wetness \div 2 ELSE 1
    IN  Max(Max(by_sigma, brush_size \div 2), 5)

\* process_rect_canvas of apply_localized_blur (lines 676, 699-714).  size is
\* what get_size() returned; the code unpacks it as (canvas_height, canvas_width).
BlurProcessRect(rect, radius, size) ==
    LET canvas_height == size[1]
        canvas_width  == size[2]
        x1 == Max(0, rect[1] - radius)
        y1 == Max(0, rect[2] - radius)
        x2 == Min(canvas_width, (rect[1] + rect[3] - 1) + radius)
        y2 == Min(canvas_height, (rect[2] + rect[4] - 1) + radius)
    IN  <<x1, y1, Max(0, x2 - x1), Max(0, y2 - y1)>>

\* cv2.bilateralFilter(area, 0, sigma_color, sigma_space): every output sample
\* is a weighted mean of the samples around it, so it lies between the least
\* and the greatest of them.  kind picks where: the sample itself, the mean of
\* the 3 x 3 neighbourhood, its greatest or its least sample.
Blurred(a, kind) ==
    LET near(r, c) == {q \in (DOMAIN a.px) \X (DOMAIN a.px[r]) :
                          /\ q[1] >= r - 1 /\ q[1] <= r + 1
                          /\ q[2] >= c - 1 /\ q[2] <= c + 1}
        val(r, c, k) ==
            LET S == {a.px[q[1]][q[2]][k] : q \in near(r, c)}
                sum == SumFn([j \in 1..9 |->
                                 LET dr == ((j - 1) \div 3) - 1
                                     dc == ((j - 1) % 3) - 1
                                 IN  IF <<r + dr, c + dc>> \in near(r, c)
                                     THEN a.px[r + dr][c + dc][k] ELSE 0], 1, 9)
            IN  IF kind = "same" THEN a.px[r][c][k]
                ELSE IF kind = "mean" THEN sum \div Cardinality(near(r, c))
                ELSE IF kind = "lightest" THEN CHOOSE v \in S : \A u \in S : u <= v
                ELSE CHOOSE v \in S : \A u \in S : u >= v
    IN  [a EXCEPT !.px = [r \in DOMAIN a.px |-> [c \in DOMAIN a.px[r] |->
                            [k \in DOMAIN a.px[r][c] |-> val(r, c, k)]]]]

\* np.minimum(original, blurred)
NpMinimum(a, b) ==
    [a EXCEPT !.px = [r \in DOMAIN a.px |-> [c \in DOMAIN a.px[r] |->
                        [k \in DOMAIN a.px[r][c] |-> Min(a.px[r][c][k], b.px[r][c][k])]]]]

\* Nothing applied: QRect() returned, the canvas as it was.
BlurNothing(cd, process_rect, area) ==
    [ret |-> <<0, 0, 0, 0>>, canvas |-> cd, process_rect |-> process_rect, area |-> area]

LocalizedBlurPastesBlurred(cd, given, rect, wetness, brush_size, width, height, kind, blur_ok) ==
    LET prect == ClipRect(<<rect[1] - 5, rect[2] - 5, rect[3] + 10, rect[4] + 10>>,
                          width, height)
        box   == <<prect.x1, prect.y1, prect.x2 - prect.x1, prect.y2 - prect.y1>>
        area  == CropArea(cd, box, width, height)
    IN  IF ~given \/ wetness <= 0 \/ IsNone(area) \/ ArrSize(area) = 0
        THEN BlurNothing(cd, box, area)
        ELSE [ret |-> box, process_rect |-> box, area |-> area,
              canvas |-> PasteArea(cd, box, Blurred(area, kind), width, height)]

\* apply_localized_blur(lienzo, canvas_rect_to_blur, wetness, brush_size) on a
\* canvas holding cd: the rectangle returned, the canvas afterwards, the
\* processing rectangle computed and the buffer cropped for it.  given: lienzo
\* is not None; blur_ok: cv2.bilateralFilter returned.
LocalizedBlur(cd, given, rect, wetness, brush_size, width, height, kind, blur_ok) ==
    LET prect   == BlurProcessRect(rect, BlurRadius(wetness, brush_size),
                                   GetSize(width, height))
        area    == CropArea(cd, prect, width, height)
        blended == NpMinimum(area, Blurred(area, kind))
    IN  IF ~given \/ QRectIsNull(rect) \/ wetness <= 0 \/ rect[3] <= 0 \/ rect[4] <= 0
        THEN BlurNothing(cd, <<0, 0, 0, 0>>, NoneArr)
        ELSE IF width <= 0 \/ height <= 0 THEN BlurNothing(cd, <<0, 0, 0, 0>>, NoneArr)
        ELSE IF prect[3] <= 0 \/ prect[4] <= 0 THEN BlurNothing(cd, prect, NoneArr)
        ELSE IF IsNone(area) \/ ArrSize(area) = 0 THEN BlurNothing(cd, prect, area)
        ELSE IF ~blur_ok THEN BlurNothing(cd, prect, area)
        ELSE IF blended.shape = <<prect[4], prect[3]>>
        THEN [ret |-> prect, process_rect |-> prect, area |-> area,
              canvas |-> PasteArea(cd, prect, blended, width, height)]
        ELSE BlurNothing(cd, prect, area)

FinalizeStrokeReturnsTouched(cd, given, rect, params, width, height, kind, blur_ok) ==
    [ret |-> rect, canvas |-> cd, process_rect |-> <<0, 0, 0, 0>>, area |-> NoneArr]

\* finalize_stroke(lienzo, stroke_inked_region_canvas, brush_params)
FinalizeStroke(cd, given, rect, params, width, height, kind, blur_ok) ==
    LocalizedBlur(cd, given, rect, ParamGet(params, "wetness", 70),
                  ParamGet(params, "size", 15), width, height, kind, blur_ok)

\* No engine call made yet.
EngineIdle ==
    [pc |-> "idle", kind |-> "none", p1 |-> <<0, 0>>, p2 |-> <<0, 0>>,
     p1_local |-> <<0, 0>>, p2_local |-> <<0, 0>>, params |-> [type |-> "round"],
     rect |-> QRectNull, noise |-> NoneArr, mask_pat |-> "zero", resize_ok |-> TRUE,
     fuzz |-> FALSE, i |-> 0, ret |-> QRectNull, raised |-> FALSE,
     before |-> NoneArr, given |-> TRUE, touched |-> QRectNull, blur_ok |-> TRUE,
     calls |-> 0]

\* No stamp made yet in the current call.
NoStamp == [i |-> -1, centre |-> <<0, 0>>, before |-> NoneArr]

(***************************************************************************)
(* The arguments the calls are made with.                                  *)
(***************************************************************************)
\* Lienzo(width, height, color): a valid non-square size, an invalid size
\* (replaced by 1 x 1), an out-of-range colour (clipped).
CtorArgs == {<<3, 2, <<255, 255, 255>>>>, <<0, 2, <<300, -5, 128>>>>}

\* (x, y, w, h): the whole canvas, inside it, past all sides, past the right
\* and bottom sides, wholly outside, of negative extent.
Rects == {<<0, 0, 3, 2>>, <<1, 0, 2, 1>>, <<-1, -1, 5, 4>>, <<2, 1, 3, 3>>,
          <<3, 0, 1, 1>>, <<1, 0, -1, 1>>}

FillColors == {<<300, -5, 128>>, <<1, 2>>}

\* Sample (r, c, i) of a test image: distinct per position and channel, all
\* congruent modulo 24; blk x blk blocks carry one value.
PatSample(k, r, c, i, blk) == k + 24 * (3 * (r \div blk) + (c \div blk) + (i - 1))

PatArr(shape, nch, dtype, contig, k, blk) ==
    [shape |-> shape, dtype |-> dtype, contig |-> contig,
     px |-> [r \in 0..(shape[1] - 1) |-> [c \in 0..(shape[2] - 1) |->
               [i \in 1..nch |-> IF dtype = "uint8" THEN PatSample(k, r, c, i, blk)
                                 ELSE IF (r + c) % 2 = 0 THEN 300 ELSE -5]]]]

\* The flat array np.arange(n): neither 2-D nor 3-D.
FlatArr(n) ==
    [shape |-> <<n>>, dtype |-> "uint8", contig |-> TRUE, px |-> [c \in 0..(n - 1) |-> <<c>>]]

\* Images handed to set_canvas_data on an h x w canvas.
SetInputs(h, w) ==
    { PatArr(<<h, w, 3>>, 3, "uint8", TRUE, 1, 1),      \* BGR, the canvas size
      PatArr(<<h, w, 3>>, 3, "uint8", FALSE, 2, 1),     \* the same, a strided view
      PatArr(<<h, w, 3>>, 3, "int32", TRUE, 0, 1),      \* not uint8, out of range
      PatArr(<<h, w>>, 1, "uint8", TRUE, 3, 1),         \* gray, H x W
      PatArr(<<h, w, 1>>, 1, "uint8", TRUE, 4, 1),      \* gray, H x W x 1
      PatArr(<<h, w, 4>>, 4, "uint8", TRUE, 5, 1),      \* BGRA
      PatArr(<<h, w, 2>>, 2, "uint8", TRUE, 6, 1),      \* two channels: unsupported
      PatArr(<<1, 1, 3>>, 3, "uint8", TRUE, 7, 1),      \* one pixel: enlarged
      PatArr(<<2 * h, 2 * w, 3>>, 3, "uint8", TRUE, 8, 2), \* twice the size: shrunk
      FlatArr(4),
      EmptyBGR,
      NoneArr }

\* Buffers handed to paste_area besides the array the caller already holds.
PasteInputs ==
    { PatArr(<<1, 2, 3>>, 3, "uint8", TRUE, 9, 1),
      PatArr(<<1, 2, 3>>, 3, "int32", TRUE, 0, 1),
      PatArr(<<1, 2, 1>>, 1, "uint8", TRUE, 10, 1),
      PatArr(<<1, 2>>, 1, "uint8", TRUE, 11, 1) }

PasteInputRects == {<<1, 0, 2, 1>>}

(***************************************************************************)
(* The canvas and its caller as a state machine.                           *)
(***************************************************************************)
CanvasArr == heap[canvas_data]

CallerHeld == IF caller_arr = 0 THEN NoneArr ELSE heap[caller_arr]

OtherId(i) == CHOOSE j \in ArrIds : j # i

\* Cells no reference reaches are released.
Collect(h, c, d) == [i \in ArrIds |-> IF i \in {c, d} THEN h[i] ELSE NoneArr]

NoCall == [op |-> "init", rect |-> <<0, 0, 0, 0>>, arg |-> NoneArr, held |-> FALSE,
           before |-> NoneArr, caller_before |-> NoneArr]

\* A resize fails only where set_canvas_data resizes.
ResizeOutcomes(a, h, w) ==
    IF ~IsNone(a) /\ Len(a.shape) \in {2, 3} /\ <<a.shape[1], a.shape[2]>> # <<h, w>>
    THEN BOOLEAN ELSE {TRUE}

\* The call just made: its name and arguments (held: the array argument is the
\* object the caller already held), and the canvas and the caller's array as
\* they were before it.
Record(op, rect, arg, held) ==
    /\ last_call' = [op |-> op, rect |-> rect, arg |-> arg, held |-> held,
                     before |-> CanvasArr, caller_before |-> CallerHeld]
    /\ prev_call' = last_call
    /\ ncalls' = ncalls + 1

\* _last_point_widget = None
NoPoint == <<>>

\* InkCanvasWidget.__init__ for a widget of size.width() x size.height():
\* not drawing, the default brush parameters, no call made (log empty).
WidgetConstructed(size) ==
    [width |-> size[1], height |-> size[2],
     is_drawing |-> FALSE,
     last_point_widget |-> NoPoint,
     current_brush_params |-> [size |-> 40, density |-> 60, wetness |-> 0,
                               feibai |-> 20, type |-> "round"],
     stroke_inked_region_canvas |-> <<0, 0, 0, 0>>,
     stroke |-> 0,
     events |-> 0,
     log |-> <<>>]

\* _update_action_states() (lines 223-226)
UpdateActionStates(mw) ==
    [mw EXCEPT !.undo_enabled = mw.history_index > 0,
               !.redo_enabled = mw.history_index < Len(mw.history) - 1]

SaveHistoryStateNoCap(mw) ==
    UpdateActionStates(
        [mw EXCEPT !.history = Append(IF mw.history_index < Len(mw.history) - 1
                                      THEN SubSeq(mw.history, 1, mw.history_index + 1)
                                      ELSE mw.history, mw.canvas),
                   !.history_index = @ + 1,
                   !.saves = @ + 1])

SaveHistoryStateKeepsRedo(mw) ==
    LET appended == Append(mw.history, mw.canvas)
        excess   == Max(0, Len(appended) - MAX_HISTORY_STATES)
    IN  UpdateActionStates(
            [mw EXCEPT !.history = SubSeq(appended, excess + 1, Len(appended)),
                       !.history_index = mw.history_index + 1 - excess,
                       !.saves = @ + 1])

\* _save_history_state() (lines 190-204): the states after the current one
\* are dropped, a copy of the canvas is appended, and the oldest states are
\* popped while there are more than MAX_HISTORY_STATES.
SaveHistoryState(mw) ==
    LET kept     == IF mw.history_index < Len(mw.history) - 1
                    THEN SubSeq(mw.history, 1, mw.history_index + 1)
                    ELSE mw.history
        appended == Append(kept, mw.canvas)
        excess   == Max(0, Len(appended) - MAX_HISTORY_STATES)
    IN  UpdateActionStates(
            [mw EXCEPT !.history = SubSeq(appended, excess + 1, Len(appended)),
                       !.history_index = mw.history_index + 1 - excess,
                       !.saves = @ + 1])

\* MainWindow.__init__ (lines 48-49, 56-57): the history holds one state, the
\* white canvas.  canvas: which drawing the lienzo holds (0: white, -1: a
\* loaded image, n > 0: the drawing after the n-th stroke); saves: how many
\* states were saved; strokes, moves, resets: how many strokes, undo/redo
\* steps and history resets the behaviour has made.
MainWindowConstructed ==
    SaveHistoryState([history |-> <<>>, history_index |-> -1,
                      undo_enabled |-> FALSE, redo_enabled |-> FALSE,
                      canvas |-> 0, saves |-> 0,
                      strokes |-> 0, moves |-> 0, resets |-> 0])

\* lienzo = Lienzo(width, height, color), with no call made yet.
LienzoConstructed(a) ==
    /\ lz_width = CtorWidth(a[1], a[2])
    /\ lz_height = CtorHeight(a[1], a[2])
    /\ heap = [i \in ArrIds |-> IF i = 1 THEN CtorData(a[1], a[2], a[3]) ELSE NoneArr]
    /\ canvas_data = 1
    /\ caller_arr = 0
    /\ last_call = NoCall
    /\ prev_call = NoCall
    /\ ncalls = 0
    /\ widget = WidgetConstructed(<<8, 3>>)

\* brush_engine imported (load_brush_shapes() ran at line 85), no call made.
EngineImported(asset) ==
    /\ brush_shapes = LoadBrushShapes(asset)
    /\ shape_call = NoShapeCall
    /\ eng = EngineIdle
    /\ local_area = NoneArr
    /\ stamp = NoStamp

LienzoInit ==
    /\ \E a \in CtorArgs : LienzoConstructed(a)
    /\ main_window = MainWindowConstructed
    /\ EngineImported([kind |-> "no_folder", dims |-> <<0, 0>>])

\* buf = lienzo.crop_area(rect): the caller now holds the returned copy.
Crop(rect) ==
    /\ ncalls < MaxCalls
    /\ LET ret == CropArea(CanvasArr, rect, lz_width, lz_height)
           id  == OtherId(canvas_data)
       IN  /\ heap' = Collect([heap EXCEPT ![id] = ret], canvas_data, id)
           /\ caller_arr' = id
           /\ Record("crop_area", rect, NoneArr, FALSE)
    /\ UNCHANGED <<main_window, lz_width, lz_height, canvas_data, engineVars, widget>>

\* lienzo.paste_area(rect, data) with data the caller's array object d.
PasteObject(rect, h, d, held) ==
    /\ heap' = Collect([h EXCEPT ![canvas_data] =
                          PasteArea(h[canvas_data], rect, h[d], lz_width, lz_height)],
                       canvas_data, d)
    /\ caller_arr' = d
    /\ Record("paste_area", rect, h[d], held)
    /\ UNCHANGED <<main_window, lz_width, lz_height, canvas_data, engineVars, widget>>

\* paste_area with the array the caller holds (a crop result, an image).
PasteHeld(rect) ==
    /\ ncalls < MaxCalls
    /\ caller_arr # 0
    /\ PasteObject(rect, heap, caller_arr, TRUE)

\* paste_area with a buffer the caller has just made and keeps.
PasteNew(rect, a) ==
    /\ ncalls < MaxCalls
    /\ LET id == OtherId(canvas_data)
       IN  PasteObject(rect, [heap EXCEPT ![id] = a], id, FALSE)

\* paste_area(rect, None)
PasteNone(rect) ==
    /\ ncalls < MaxCalls
    /\ heap' = heap
    /\ Record("paste_area", rect, NoneArr, FALSE)
    /\ UNCHANGED <<main_window, lz_width, lz_height, canvas_data, caller_arr, engineVars, widget>>

\* lienzo.set_canvas_data(data) with data the caller's array object d.
SetObject(h, d, held, resize_ok) ==
    LET res == SetCanvasDataResult(h[canvas_data], h[d], lz_height, lz_width, resize_ok)
        new == IF d = canvas_data THEN OtherId(d) ELSE canvas_data
    IN  /\ IF ~res.set THEN /\ canvas_data' = canvas_data
                            /\ heap' = Collect(h, canvas_data, d)
           ELSE IF res.alias THEN /\ canvas_data' = d
                                  /\ heap' = Collect(h, d, d)
           ELSE /\ canvas_data' = new
                /\ heap' = Collect([h EXCEPT ![new] = res.arr], new, d)
        /\ caller_arr' = d
        /\ Record("set_canvas_data", <<0, 0, 0, 0>>, h[d], held)
        /\ UNCHANGED <<main_window, lz_width, lz_height, engineVars, widget>>

SetHeld ==
    /\ ncalls < MaxCalls
    /\ caller_arr # 0
    /\ \E resize_ok \in ResizeOutcomes(heap[caller_arr], lz_height, lz_width) :
          SetObject(heap, caller_arr, TRUE, resize_ok)

SetNew(a) ==
    /\ ncalls < MaxCalls
    /\ ~IsNone(a)
    /\ LET id == OtherId(canvas_data)
       IN  \E resize_ok \in ResizeOutcomes(a, lz_height, lz_width) :
               SetObject([heap EXCEPT ![id] = a], id, FALSE, resize_ok)

\* lienzo.set_canvas_data(None)
SetNone ==
    /\ ncalls < MaxCalls
    /\ heap' = heap
    /\ Record("set_canvas_data", <<0, 0, 0, 0>>, NoneArr, FALSE)
    /\ UNCHANGED <<main_window, lz_width, lz_height, canvas_data, caller_arr, engineVars, widget>>

\* lienzo.fill(color)
Fill(color) ==
    /\ ncalls < MaxCalls
    /\ heap' = [heap EXCEPT ![canvas_data] = FillData(CanvasArr, color)]
    /\ Record("fill", <<0, 0, 0, 0>>, NoneArr, FALSE)
    /\ UNCHANGED <<main_window, lz_width, lz_height, canvas_data, caller_arr, engineVars, widget>>

\* The caller writes into the array it holds: data[r, c] = v.
CallerWrite(r, c, v) ==
    /\ ncalls < MaxCalls
    /\ caller_arr # 0
    /\ Len(heap[caller_arr].shape) >= 2
    /\ r \in DOMAIN heap[caller_arr].px
    /\ c \in DOMAIN heap[caller_arr].px[r]
    /\ heap' = [heap EXCEPT ![caller_arr].px[r][c] = [i \in DOMAIN @ |-> v]]
    /\ Record("caller_write", <<c, r, 1, 1>>, NoneArr, TRUE)
    /\ UNCHANGED <<main_window, lz_width, lz_height, canvas_data, caller_arr, engineVars, widget>>

LienzoNext ==
    \/ \E rect \in Rects : Crop(rect)
    \/ \E rect \in Rects : PasteHeld(rect)
    \/ \E rect \in PasteInputRects, a \in PasteInputs : PasteNew(rect, a)
    \/ \E rect \in PasteInputRects : PasteNone(rect)
    \/ SetHeld
    \/ \E a \in SetInputs(lz_height, lz_width) : SetNew(a)
    \/ SetNone
    \/ \E color \in FillColors : Fill(color)
    \/ \E r \in {0}, c \in {0, 1}, v \in {77} : CallerWrite(r, c, v)

SpecLienzo == LienzoInit /\ [][LienzoNext]_vars

(***************************************************************************)
(* Properties of the canvas.                                               *)
(***************************************************************************)
\* The canvas columns (rows) a requested extent [lo, lo + len) covers.
Covered(lo, len, n) == {i \in 0..(n - 1) : lo <= i /\ i < lo + len}

\* C4: crop_area(rect) followed immediately by paste_area(rect, result), for
\* any rectangle, leaves every pixel of the canvas as it was before the crop.
C4_CropThenPasteRestores ==
    ( /\ last_call.op = "paste_area"
      /\ last_call.held
      /\ prev_call.op = "crop_area"
      /\ last_call.rect = prev_call.rect )
    => CanvasArr = prev_call.before

\* C4 witness: such a round trip over a rectangle that starts inside a canvas
\* with differing pixels and hangs over its right and bottom sides.
C4_Witness ==
    /\ last_call.op = "paste_area"
    /\ last_call.held
    /\ prev_call.op = "crop_area"
    /\ last_call.rect = prev_call.rect
    /\ last_call.rect = <<2, 1, 3, 3>>
    /\ last_call.arg.shape = <<1, 1, 3>>
    /\ lz_width = 3
    /\ CanvasArr.px[1][2] # CanvasArr.px[0][0]

\* C5: crop_area returns, for every integer rectangle, a buffer whose height and
\* width are those of the rectangle's intersection with [0,W) x [0,H), and an
\* empty buffer when that intersection is empty.
C5_CropSizeIsClippedIntersection ==
    last_call.op = "crop_area" =>
        LET cols == Covered(last_call.rect[1], last_call.rect[3], lz_width)
            rows == Covered(last_call.rect[2], last_call.rect[4], lz_height)
        IN  IF cols = {} \/ rows = {}
            THEN ArrSize(CallerHeld) = 0
            ELSE /\ CallerHeld.shape = <<Cardinality(rows), Cardinality(cols), 3>>
                 /\ DOMAIN CallerHeld.px = 0..(Cardinality(rows) - 1)
                 /\ \A r \in DOMAIN CallerHeld.px :
                        DOMAIN CallerHeld.px[r] = 0..(Cardinality(cols) - 1)

\* C5 witness: a crop of a rectangle reaching past all four sides of the 3 x 2
\* canvas returned the 2 x 3 intersection, not the 4 x 5 request.
C5_Witness ==
    /\ last_call.op = "crop_area"
    /\ last_call.rect = <<-1, -1, 5, 4>>
    /\ lz_width = 3
    /\ CallerHeld.shape = <<2, 3, 3>>

\* The buffer does not have exactly the shape of rect clipped to the canvas.
PasteMismatch(rect, data) ==
    LET cols == Covered(rect[1], rect[3], lz_width)
        rows == Covered(rect[2], rect[4], lz_height)
    IN  \/ IsNone(data)
        \/ cols = {}
        \/ rows = {}
        \/ Len(data.shape) # 3
        \/ data.shape[1] # Cardinality(rows)
        \/ data.shape[2] # Cardinality(cols)
        \/ data.shape[3] # 3

\* C6: paste_area(rect, buffer) leaves every canvas pixel unchanged whenever the
\* buffer's height, width or channel count differs from those of rect clipped
\* to the canvas, or the clipped rect is empty.
C6_PasteMismatchIsNoOp ==
    (last_call.op = "paste_area" /\ PasteMismatch(last_call.rect, last_call.arg))
    => CanvasArr = last_call.before

\* C6 witness: a paste of a one-channel buffer of the right height and width
\* into a region inside the canvas.
C6_Witness ==
    /\ last_call.op = "paste_area"
    /\ last_call.rect = <<1, 0, 2, 1>>
    /\ lz_width = 3
    /\ last_call.arg.shape = <<1, 2, 1>>
    /\ CanvasArr = last_call.before

\* C7: after any sequence of calls the canvas buffer is H x W x 3 samples of 8
\* bits, (W, H) being the size get_size returns.
C7_CanvasShapeFixed ==
    /\ CanvasArr.shape = <<lz_height, lz_width, 3>>
    /\ CanvasArr.dtype = "uint8"
    /\ DOMAIN CanvasArr.px = 0..(lz_height - 1)
    /\ \A r \in DOMAIN CanvasArr.px :
        /\ DOMAIN CanvasArr.px[r] = 0..(lz_width - 1)
        /\ \A c \in DOMAIN CanvasArr.px[r] :
            /\ Len(CanvasArr.px[r][c]) = 3
            /\ \A i \in 1..3 : CanvasArr.px[r][c][i] \in 0..255

\* C7 witness: set_canvas_data replaced the buffer from an image twice the
\* canvas size.
C7_Witness ==
    /\ last_call.op = "set_canvas_data"
    /\ lz_width = 3
    /\ last_call.arg.shape = <<4, 6, 3>>
    /\ CanvasArr # last_call.before

\* C8: no canvas operation exposes an alias of the owned buffer: a write by the
\* caller into the array it received or passed in never changes the canvas, and
\* a canvas mutation (fill, paste_area) never changes the caller's array.
C8_NoAliasExposed ==
    /\ last_call.op = "caller_write" => CanvasArr = last_call.before
    /\ last_call.op = "fill" => CallerHeld = last_call.caller_before
    /\ (last_call.op = "paste_area" /\ last_call.held) => CallerHeld = last_call.caller_before

RECURSIVE SetSum(_, _)
SetSum(S, f) == IF S = {} THEN 0
                ELSE LET x == CHOOSE y \in S : TRUE IN f[x] + SetSum(S \ {x}, f)

\* The source samples along one axis (of length n) that make up target sample t
\* of the resampled axis (of length m).
Block(t, n, m) == IF n >= m THEN {y \in 0..(n - 1) : y \div (n \div m) = t} ELSE {(t * n) \div m}

\* The source normalised for an h x w canvas: three 8-bit channels (gray
\* repeated, alpha dropped), resampled to h x w.  NoneArr when the source is
\* none, empty, or of an unsupported rank or channel count.
NormalizedSource(src, h, w) ==
    IF IsNone(src) \/ ArrSize(src) = 0 \/ Len(src.shape) \notin {2, 3} THEN NoneArr
    ELSE LET nch == IF Len(src.shape) = 2 THEN 1 ELSE src.shape[3]
             ch(i) == IF nch = 1 THEN 1 ELSE i
             at(r, c, i) ==
                LET ys == Block(r, src.shape[1], h)
                    xs == Block(c, src.shape[2], w)
                    cells == ys \X xs
                IN  SetSum(cells, [q \in cells |-> src.px[q[1]][q[2]][ch(i)] % 256])
                        \div Cardinality(cells)
         IN  IF nch \notin {1, 3, 4} THEN NoneArr
             ELSE [shape |-> <<h, w, 3>>, dtype |-> "uint8", contig |-> TRUE,
                   px |-> [r \in 0..(h - 1) |-> [c \in 0..(w - 1) |->
                             [i \in 1..3 |-> at(r, c, i)]]]]

\* C9: set_canvas_data replaces the buffer atomically: after the call the canvas
\* holds the fully normalised source or is exactly as before the call.
C9_SetCanvasDataAtomic ==
    last_call.op = "set_canvas_data" =>
        \/ CanvasArr = last_call.before
        \/ CanvasArr = NormalizedSource(last_call.arg, lz_height, lz_width)

\* C9 witness: set_canvas_data took a BGRA image of the canvas size and the
\* canvas now holds its three colour channels.
C9_Witness ==
    /\ last_call.op = "set_canvas_data"
    /\ lz_width = 3
    /\ last_call.arg.shape = <<2, 3, 4>>
    /\ CanvasArr # last_call.before
    /\ CanvasArr.px[1][2] = SubSeq(last_call.arg.px[1][2], 1, 3)

(***************************************************************************)
(* The brush shape library: load_brush_shapes and                          *)
(* get_scaled_rotated_brush_shape called with sizes around the base size.  *)
(***************************************************************************)
\* What load_brush_shapes finds on disk for brush_round.png.
Assets ==
    {[kind |-> "no_folder",  dims |-> <<0, 0>>],
     [kind |-> "no_file",    dims |-> <<0, 0>>],
     [kind |-> "unreadable", dims |-> <<0, 0>>],
     [kind |-> "image",      dims |-> <<4, 4>>],
     [kind |-> "image",      dims |-> <<2, 3>>]}

BrushTypes == {"round", "flat"}

TargetSizes == {0, 1, 2, 3, 4, SynthSize}

Angles == {0, 45, -90}

\* cv2.resize raises only where the function resizes.
ShapeResizeOutcomes(shapes, brush_type, target_size) ==
    LET base == ShapeLookup(shapes, brush_type)
    IN  IF base # NoShape /\ base[1] * base[2] # 0 /\ base[1] # Max(1, target_size)
        THEN BOOLEAN ELSE {TRUE}

ShapeInit ==
    /\ LienzoConstructed(<<3, 2, White>>)
    /\ main_window = MainWindowConstructed
    /\ \E asset \in Assets : EngineImported(asset)

\* load_brush_shapes() called again (main_window.py:38).
LoadShapes(asset) ==
    /\ brush_shapes' = LoadBrushShapes(asset)
    /\ UNCHANGED <<main_window, lienzoVars, widget, last_call, prev_call, ncalls, shape_call, eng,
                   local_area, stamp>>

\* get_scaled_rotated_brush_shape(brush_type, target_size, angle)
GetShape(brush_type, target_size, angle) ==
    /\ \E resize_ok \in ShapeResizeOutcomes(brush_shapes, brush_type, target_size) :
          LET res == GetScaledRotated(brush_shapes, brush_type, target_size, angle,
                                      resize_ok)
          IN  shape_call' = [brush_type |-> brush_type, target_size |-> target_size,
                             angle |-> angle, resize_ok |-> resize_ok,
                             raised |-> res.raised,
                             shape |-> res.shape]
    /\ UNCHANGED <<main_window, lienzoVars, widget, last_call, prev_call, ncalls, brush_shapes, eng,
                   local_area, stamp>>

ShapeNext ==
    \/ \E asset \in Assets : LoadShapes(asset)
    \/ \E brush_type \in BrushTypes, target_size \in TargetSizes, angle \in Angles :
          GetShape(brush_type, target_size, angle)

SpecShape == ShapeInit /\ [][ShapeNext]_vars

\* C10: get_scaled_rotated_brush_shape(name, N, angle) returns a mask of shape
\* exactly N x N for every registered or unknown name, every angle and every
\* N > 0, including N equal to the side of the stored base mask.  Stated for
\* the calls in which cv2.resize does not fail.
C10_ShapeIsRequestedSquare ==
    (shape_call.brush_type # "" /\ shape_call.target_size > 0
        /\ shape_call.resize_ok) =>
        /\ ~shape_call.raised
        /\ shape_call.shape = <<shape_call.target_size, shape_call.target_size>>

\* C11: after load_brush_shapes the library holds a valid non-empty square mask
\* for the default name 'round' and for a secondary flat variant, whatever the
\* asset files are (missing, unreadable or valid).
C11_LibraryHasRoundAndFlat ==
    \A name \in {"round", "flat"} :
        /\ name \in DOMAIN brush_shapes
        /\ brush_shapes[name] # NoShape
        /\ brush_shapes[name][1] > 0
        /\ brush_shapes[name][1] = brush_shapes[name][2]

(***************************************************************************)
(* The brush engine: apply_basic_brush_stroke_segment on the canvas and    *)
(* _apply_ink_to_local_area on a buffer of the caller, one stamp per step. *)
(***************************************************************************)
MaskPatterns == {"full", "disc", "zero"}

\* A mask of side n as get_scaled_rotated_brush_shape returns it: opaque,
\* transparent, or opaque at the centre fading to transparent corners.
MaskArr(pat, n) ==
    LET v(r, c) == IF pat = "full" THEN Grain
                   ELSE IF pat = "zero" THEN 0
                   ELSE IF r = n \div 2 /\ c = n \div 2 THEN Grain
                   ELSE IF r \in {0, n - 1} /\ c \in {0, n - 1} THEN 0
                   ELSE Levels
    IN  [shape |-> <<n, n>>, dtype |-> "float32", contig |-> TRUE,
         px |-> [r \in 0..(n - 1) |-> [c \in 0..(n - 1) |-> <<v(r, c)>>]]]

NoisePatterns == {"low", "high", "mixed"}

\* np.random.rand(h, w).astype(np.float32): one of three textures.
NoiseArr(pat, h, w) ==
    LET v(r, c) == IF pat = "low" THEN 0
                   ELSE IF pat = "high" THEN Grain
                   ELSE (r + 2 * c) % (Grain + 1)
    IN  [shape |-> <<h, w>>, dtype |-> "float32", contig |-> TRUE,
         px |-> [r \in 0..(h - 1) |-> [c \in 0..(w - 1) |-> <<v(r, c)>>]]]

\* The canvas and the brush image the engine starts with.
EngineConfigs ==
    {[ctor |-> <<4, 3, White>>, asset |-> [kind |-> "no_folder", dims |-> <<0, 0>>]],
     [ctor |-> <<4, 3, <<90, 90, 90>>>>, asset |-> [kind |-> "image", dims |-> <<3, 3>>]]}

\* Segments <<p1, p2>> in canvas coordinates: a tap, strokes inside the canvas,
\* a stroke entering from outside, a tap outside the canvas.
SegmentPairs ==
    {<<<<1, 1>>, <<1, 1>>>>, <<<<1, 1>>, <<3, 2>>>>, <<<<3, 2>>, <<0, 2>>>>,
     <<<<-2, 1>>, <<1, 1>>>>, <<<<6, 0>>, <<6, 0>>>>}

EngineParams ==
    {[size |-> 3, density |-> 100, feibai |-> 0, type |-> "round"],
     [size |-> 2, density |-> 60, feibai |-> 20, type |-> "flat"],
     [size |-> 1, density |-> 150, feibai |-> -10, type |-> "round"],
     [type |-> "round"]}

\* What a call meets: the noise drawn, the mask values, the float rounding,
\* and whether cv2.resize returns.
EngineEnvs ==
    {[noise_pat |-> "mixed", mask_pat |-> "disc", fuzz |-> FALSE, resize_ok |-> TRUE],
     [noise_pat |-> "high",  mask_pat |-> "full", fuzz |-> FALSE, resize_ok |-> TRUE],
     [noise_pat |-> "low",   mask_pat |-> "full", fuzz |-> TRUE,  resize_ok |-> TRUE],
     [noise_pat |-> "mixed", mask_pat |-> "zero", fuzz |-> FALSE, resize_ok |-> TRUE],
     [noise_pat |-> "high",  mask_pat |-> "full", fuzz |-> FALSE, resize_ok |-> FALSE]}

\* A gray (rank 2) buffer: the value of pixel (r, c) is base - step * (r + c).
GrayArr(h, w, base, step) ==
    [shape |-> <<h, w>>, dtype |-> "uint8", contig |-> TRUE,
     px |-> [r \in 0..(h - 1) |-> [c \in 0..(w - 1) |-> <<base - step * (r + c)>>]]]

\* The buffer and the noise texture _apply_ink_to_local_area is called with
\* directly; the texture is drawn as noise_pat says or missing.
HelperBuffers(noise_pat) ==
    {<<GrayArr(2, 3, 255, 0), NoiseArr(noise_pat, 2, 3)>>,
     <<GrayArr(2, 3, 200, 60), NoiseArr(noise_pat, 2, 3)>>,
     <<GrayArr(2, 3, 200, 60), NoneArr>>,
     <<NpFull(2, 3, White), NoiseArr(noise_pat, 2, 3)>>}

\* Buffers there is nothing to draw on: empty, None.
HelperNoBuffers == {EmptyBGR, NoneArr}

\* A settings bag with the eraser chosen as tool mode, and the gray buffers it
\* is used on: all black, and inked.  The helper reads size, density, feibai
\* and type only (lines 441-444).
EraserParams ==
    [size |-> 2, density |-> 100, feibai |-> 0, flow |-> 100, type |-> "round",
     tool_mode |-> "eraser"]

EraserBuffers == {GrayArr(2, 3, 0, 0), GrayArr(2, 3, 200, 60)}

\* A settings bag with the flow turned to 0.
NoFlowParams ==
    [size |-> 2, density |-> 100, feibai |-> 0, flow |-> 0, type |-> "round"]

\* Segments <<p1_local, p2_local>> in buffer coordinates.
HelperPairs == {<<<<0, 0>>, <<2, 1>>>>, <<<<-1, 1>>, <<-1, 1>>>>}

\* A segment of 22 pixel steps along x, from the left edge of the buffer.
LongPair == <<<<0, 0>>, <<22, 0>>>>

\* cv2.resize is reached only where get_scaled_rotated_brush_shape resizes.
ResizeReturns(params, resize_ok) ==
    resize_ok \/ ShapeResizeOutcomes(brush_shapes, BrushType(params),
                                     BrushSize(params)) = {TRUE}

EngineInit ==
    \E cfg \in EngineConfigs :
        /\ LienzoConstructed(cfg.ctor)
        /\ main_window = MainWindowConstructed
        /\ EngineImported(cfg.asset)

\* apply_basic_brush_stroke_segment(lienzo, p1, p2, brush_params) up to the
\* call of the helper (lines 542-611); given: lienzo is not None.
SegmentCall(given, p1, p2, params, env) ==
    /\ eng.pc = "idle"
    /\ eng.calls < MaxStrokes
    /\ LET rect  == ProcessRect(p1, p2, BrushSize(params), lz_width, lz_height)
           local == CropArea(CanvasArr, rect, lz_width, lz_height)
           call  == [EngineIdle EXCEPT !.calls = eng.calls + 1, !.kind = "segment", !.p1 = p1, !.p2 = p2,
                                       !.params = params, !.before = CanvasArr]
       IN  IF ~given \/ lz_width <= 0 \/ lz_height <= 0
           THEN /\ eng' = call
                /\ local_area' = NoneArr
           ELSE IF rect[3] <= 0 \/ rect[4] <= 0
           THEN /\ eng' = [call EXCEPT !.rect = rect]
                /\ local_area' = NoneArr
           ELSE IF IsNone(local) \/ ArrSize(local) = 0
           THEN /\ eng' = [call EXCEPT !.rect = rect]
                /\ local_area' = local
           ELSE /\ eng' = [call EXCEPT
                             !.pc = "stamping", !.rect = rect,
                             !.p1_local = <<p1[1] - rect[1], p1[2] - rect[2]>>,
                             !.p2_local = <<p2[1] - rect[1], p2[2] - rect[2]>>,
                             !.noise = NoiseArr(env.noise_pat, local.shape[1],
                                                local.shape[2]),
                             !.mask_pat = env.mask_pat,
                             !.resize_ok = ResizeReturns(params, env.resize_ok),
                             !.fuzz = env.fuzz]
                /\ local_area' = local
    /\ stamp' = NoStamp
    /\ UNCHANGED <<main_window, lienzoVars, widget, last_call, prev_call, ncalls, brush_shapes, shape_call>>

\* _apply_ink_to_local_area(local, p1_local, p2_local, brush_params, noise)
\* called on a buffer of the caller, up to the loop (lines 430-458).
HelperCall(local, p1_local, p2_local, params, noise, env) ==
    /\ eng.pc = "idle"
    /\ eng.calls < MaxStrokes
    /\ eng' = [EngineIdle EXCEPT
                 !.calls = eng.calls + 1,
                 !.pc = IF IsNone(local) \/ ArrSize(local) = 0 THEN "idle" ELSE "stamping",
                 !.kind = "helper", !.p1_local = p1_local, !.p2_local = p2_local,
                 !.params = params, !.noise = noise, !.mask_pat = env.mask_pat,
                 !.resize_ok = ResizeReturns(params, env.resize_ok),
                 !.fuzz = env.fuzz, !.before = local]
    /\ local_area' = local
    /\ stamp' = NoStamp
    /\ UNCHANGED <<main_window, lienzoVars, widget, last_call, prev_call, ncalls, brush_shapes, shape_call>>

\* The mask lookup of the current iteration (line 474).
StampShape ==
    GetScaledRotated(brush_shapes, BrushType(eng.params), BrushSize(eng.params),
                     AngleDegrees(eng.p2_local[1] - eng.p1_local[1],
                                  eng.p2_local[2] - eng.p1_local[2]),
                     eng.resize_ok)

StampShapeCall ==
    [brush_type |-> BrushType(eng.params), target_size |-> BrushSize(eng.params),
     angle |-> AngleDegrees(eng.p2_local[1] - eng.p1_local[1],
                            eng.p2_local[2] - eng.p1_local[2]),
     resize_ok |-> eng.resize_ok, raised |-> StampShape.raised,
     shape |-> StampShape.shape]

\* One iteration of the loop of _apply_ink_to_local_area (lines 461-517).
Stamp ==
    /\ eng.pc = "stamping"
    /\ ~StampShape.raised
    /\ LET centre == StampCentre(eng.p1_local, eng.p2_local, eng.i)
           mask   == IF StampShape.shape = <<BrushSize(eng.params), BrushSize(eng.params)>>
                     THEN MaskArr(eng.mask_pat, BrushSize(eng.params))
                     ELSE [NoneArr EXCEPT !.shape = StampShape.shape, !.dtype = "float32"]
       IN  /\ local_area' = StampLocal(local_area,
                                       EffectiveNoise(local_area, eng.noise), mask,
                                       centre, BrushSize(eng.params),
                                       Density(eng.params), Feibai(eng.params),
                                       eng.fuzz)
           /\ stamp' = [i |-> eng.i, centre |-> centre, before |-> local_area]
    /\ shape_call' = StampShapeCall
    /\ eng' = [eng EXCEPT !.i = eng.i + 1,
                          !.pc = IF eng.i = NumSteps(eng.p1_local, eng.p2_local)
                                 THEN "exit" ELSE "stamping"]
    /\ UNCHANGED <<main_window, lienzoVars, widget, last_call, prev_call, ncalls, brush_shapes>>

\* The mask lookup raises (UnboundLocalError): the helper is left through the
\* exception; apply_basic_brush_stroke_segment catches it, pastes the local
\* area and returns QRect() (lines 619-624).
StampRaises ==
    /\ eng.pc = "stamping"
    /\ StampShape.raised
    /\ shape_call' = StampShapeCall
    /\ eng' = [eng EXCEPT !.pc = "idle", !.raised = TRUE, !.ret = QRectNull]
    /\ heap' = IF eng.kind = "segment"
               THEN [heap EXCEPT ![canvas_data] =
                       PasteArea(CanvasArr, eng.rect, local_area, lz_width, lz_height)]
               ELSE heap
    /\ UNCHANGED <<main_window, lz_width, lz_height, canvas_data, caller_arr, widget, last_call, prev_call,
                   ncalls, brush_shapes, local_area, stamp>>

\* apply_basic_brush_stroke_segment after the helper returned (lines 626-641).
SegmentReturn ==
    /\ eng.pc = "exit"
    /\ eng.kind = "segment"
    /\ IF local_area.shape = <<eng.rect[4], eng.rect[3]>>
       THEN /\ heap' = [heap EXCEPT ![canvas_data] =
                          PasteArea(CanvasArr, eng.rect, local_area, lz_width, lz_height)]
            /\ eng' = [eng EXCEPT !.pc = "idle", !.ret = eng.rect]
       ELSE /\ heap' = heap
            /\ eng' = [eng EXCEPT !.pc = "idle", !.ret = QRectNull]
    /\ UNCHANGED <<main_window, lz_width, lz_height, canvas_data, caller_arr, widget, last_call, prev_call,
                   ncalls, brush_shapes, shape_call, local_area, stamp>>

\* _apply_ink_to_local_area returns to its caller.
HelperReturn ==
    /\ eng.pc = "exit"
    /\ eng.kind = "helper"
    /\ eng' = [eng EXCEPT !.pc = "idle"]
    /\ UNCHANGED <<main_window, lienzoVars, widget, last_call, prev_call, ncalls, brush_shapes, shape_call,
                   local_area, stamp>>

\* An image with ink on it: darker toward the bottom right.
InkedImage(h, w) ==
    [shape |-> <<h, w, 3>>, dtype |-> "uint8", contig |-> TRUE,
     px |-> [r \in 0..(h - 1) |-> [c \in 0..(w - 1) |->
               [i \in 1..3 |-> 250 - 40 * r - 10 * c - i]]]]

\* An image is loaded into the canvas before the first stroke
\* (load_image_into_canvas calls set_canvas_data).
EngineLoadImage ==
    /\ eng.calls = 0
    /\ ncalls = 0
    /\ SetNew(InkedImage(lz_height, lz_width))

\* The accumulated inked region handed to finalize_stroke: null, one pixel,
\* reaching the bottom right corner, of zero width, outside the canvas.
TouchedRects ==
    {<<0, 0, 0, 0>>, <<1, 1, 1, 1>>, <<2, 1, 2, 2>>, <<1, 1, 0, 2>>, <<9, 1, 2, 2>>}

FinalizeParams ==
    {[wetness |-> 0, size |-> 3], [wetness |-> -5, size |-> 3],
     [wetness |-> 80, size |-> 3], [wetness |-> 150, size |-> 40],
     [wetness |-> 1, size |-> -4], [size |-> 3]}

\* What cv2.bilateralFilter does in a call: the kind of result, or an exception.
BlurEnvs ==
    {[kind |-> "mean", blur_ok |-> TRUE], [kind |-> "lightest", blur_ok |-> TRUE],
     [kind |-> "darkest", blur_ok |-> TRUE], [kind |-> "same", blur_ok |-> FALSE]}

\* finalize_stroke(lienzo, rect, brush_params)
FinalizeCall(given, rect, params, env) ==
    /\ eng.pc = "idle"
    /\ eng.calls < MaxStrokes
    /\ LET res == FinalizeStroke(CanvasArr, given, rect, params, lz_width, lz_height,
                                 env.kind, env.blur_ok)
       IN  /\ heap' = [heap EXCEPT ![canvas_data] = res.canvas]
           /\ eng' = [EngineIdle EXCEPT !.calls = eng.calls + 1,
                                        !.kind = "finalize", !.params = params,
                                        !.given = given, !.touched = rect,
                                        !.blur_ok = env.blur_ok,
                                        !.rect = res.process_rect, !.ret = res.ret,
                                        !.before = CanvasArr]
           /\ local_area' = res.area
    /\ stamp' = NoStamp
    /\ UNCHANGED <<main_window, lz_width, lz_height, canvas_data, caller_arr, widget, last_call, prev_call,
                   ncalls, brush_shapes, shape_call>>

EngineNext ==
    \/ EngineLoadImage
    \/ \E rect \in TouchedRects, params \in FinalizeParams, env \in BlurEnvs :
          FinalizeCall(TRUE, rect, params, env)
    \/ \E rect \in TouchedRects :
          FinalizeCall(FALSE, rect, [wetness |-> 80, size |-> 3],
                       [kind |-> "mean", blur_ok |-> TRUE])
    \/ \E seg \in SegmentPairs, params \in EngineParams, env \in EngineEnvs :
          SegmentCall(TRUE, seg[1], seg[2], params, env)
    \/ \E seg \in SegmentPairs :
          SegmentCall(FALSE, seg[1], seg[2], [type |-> "round"],
                      [noise_pat |-> "mixed", mask_pat |-> "disc", fuzz |-> FALSE,
                       resize_ok |-> TRUE])
    \/ \E seg \in HelperPairs, params \in EngineParams, env \in EngineEnvs :
          \E buf \in HelperBuffers(env.noise_pat) :
              HelperCall(buf[1], seg[1], seg[2], params, buf[2], env)
    \/ \E local \in HelperNoBuffers :
          HelperCall(local, <<0, 0>>, <<2, 1>>, [type |-> "round"], NoneArr,
                     [noise_pat |-> "mixed", mask_pat |-> "disc", fuzz |-> FALSE,
                      resize_ok |-> TRUE])
    \/ \E local \in EraserBuffers, params \in {EraserParams, NoFlowParams} :
          HelperCall(local, <<1, 0>>, <<1, 0>>, params, NoiseArr("high", 2, 3),
                     [noise_pat |-> "high", mask_pat |-> "full", fuzz |-> FALSE,
                      resize_ok |-> TRUE])
    \/ \E local \in EraserBuffers :
          HelperCall(local, LongPair[1], LongPair[2], EraserParams,
                     NoiseArr("high", 2, 3),
                     [noise_pat |-> "high", mask_pat |-> "full", fuzz |-> FALSE,
                      resize_ok |-> TRUE])
    \/ Stamp
    \/ StampRaises
    \/ SegmentReturn
    \/ HelperReturn

SpecEngine == EngineInit /\ [][EngineNext]_vars

\* C1: an ink stamp never brightens a pixel: after any single stamp every
\* sample of every pixel of the local buffer is <= its value before the stamp.
C1_StampNeverBrightens ==
    stamp.i >= 0 =>
        \A r \in DOMAIN local_area.px : \A c \in DOMAIN local_area.px[r] :
            \A k \in DOMAIN local_area.px[r][c] :
                local_area.px[r][c][k] <= stamp.before.px[r][c][k]

\* C1 witness: a stamp has made one pixel strictly darker and left another,
\* already inked, pixel as it was.
C1_Witness ==
    /\ stamp.i >= 0
    /\ \E r \in DOMAIN local_area.px : \E c \in DOMAIN local_area.px[r] :
          local_area.px[r][c][1] < stamp.before.px[r][c][1]
    /\ \E r \in DOMAIN local_area.px : \E c \in DOMAIN local_area.px[r] :
          /\ local_area.px[r][c][1] = stamp.before.px[r][c][1]
          /\ local_area.px[r][c][1] < 255

\* The call of apply_basic_brush_stroke_segment has returned, with a canvas,
\* and no exception was caught on the way.
SegmentDone ==
    /\ eng.pc = "idle"
    /\ eng.kind = "segment"
    /\ ~IsNone(local_area)
    /\ ~eng.raised

\* C2: for a segment whose working rectangle is non-empty after clipping,
\* apply_basic_brush_stroke_segment returns exactly that rectangle and pastes
\* the stamped local buffer back: the canvas inside the rectangle equals the
\* buffer.
C2_SegmentReturnsRectAndPastes ==
    (SegmentDone /\ eng.rect[3] > 0 /\ eng.rect[4] > 0) =>
        /\ eng.ret = eng.rect
        /\ CropArea(CanvasArr, eng.rect, lz_width, lz_height) = local_area

\* C3: a tap (p1 = p2 inside the canvas) on a white canvas with density 100
\* and feibai 0 leaves the pixel at the tap point strictly darker than 255.
\* Stated for brushes whose mask is opaque at its centre.
C3_TapDarkensPixel ==
    (/\ SegmentDone
     /\ eng.p1 = eng.p2
     /\ eng.p1[1] \in 0..(lz_width - 1) /\ eng.p1[2] \in 0..(lz_height - 1)
     /\ eng.before = NpFull(lz_height, lz_width, White)
     /\ Density(eng.params) = 100 /\ Feibai(eng.params) = 0
     /\ eng.mask_pat \in {"full", "disc"} /\ eng.resize_ok)
    => \A k \in 1..3 : CanvasArr.px[eng.p1[2]][eng.p1[1]][k] < 255

\* The call of finalize_stroke has returned.
FinalizeDone == eng.pc = "idle" /\ eng.kind = "finalize"

\* The rectangle r = <<x, y, w, h>> is empty.
RectEmpty(r) == r[3] <= 0 \/ r[4] <= 0

\* The pixel (r, c) lies in the rectangle rect.
InRect(r, c, rect) ==
    /\ c >= rect[1] /\ c < rect[1] + rect[3]
    /\ r >= rect[2] /\ r < rect[2] + rect[4]

\* C15: after any eraser stamp every sample is >= its value before the stamp,
\* and an eraser stamp on a black pixel makes it strictly lighter than 0.
C15_EraserStampOnlyLightens ==
    (stamp.i >= 0 /\ ParamGet(eng.params, "tool_mode", "ink") = "eraser") =>
        /\ \A r \in DOMAIN local_area.px : \A c \in DOMAIN local_area.px[r] :
              \A k \in DOMAIN local_area.px[r][c] :
                  local_area.px[r][c][k] >= stamp.before.px[r][c][k]
        /\ LET r == stamp.centre[2]
               c == stamp.centre[1]
           IN  (/\ r \in DOMAIN local_area.px
                /\ c \in DOMAIN local_area.px[r]
                /\ stamp.before.px[r][c][1] = 0)
               => local_area.px[r][c][1] > 0

\* C17: every numeric settings field the engine uses (size, density, feibai,
\* wetness) lies in its declared range when it enters the computation (size
\* > 0, the others in 0..100), whatever the settings bag holds, so that the
\* diffusion radius is the one of the clamped settings.
C17_SettingsClampedBeforeUse ==
    /\ eng.kind \in {"segment", "helper"} =>
          /\ BrushSize(eng.params) > 0
          /\ Density(eng.params) \in 0..100
          /\ Feibai(eng.params) \in 0..100
    /\ (FinalizeDone /\ eng.given /\ ~RectEmpty(eng.touched)
        /\ ParamGet(eng.params, "wetness", 70) > 0) =>
          /\ ParamGet(eng.params, "wetness", 70) <= 100
          /\ BlurRadius(ParamGet(eng.params, "wetness", 70),
                        ParamGet(eng.params, "size", 15))
             = BlurRadius(Min(100, ParamGet(eng.params, "wetness", 70)),
                          Max(1, ParamGet(eng.params, "size", 15)))

\* apply_basic_brush_stroke_segment has returned, on whichever path.
SegmentEnded == eng.pc = "idle" /\ eng.kind = "segment"

\* The working rectangle of the segment last called: the bounding box of its
\* end points, expanded by the brush radius; WorkingRectEmpty: no pixel of the
\* canvas lies in it.
WorkingRadius == BrushSize(eng.params) \div 2

WorkingRectEmpty ==
    \/ Max(eng.p1[1], eng.p2[1]) + WorkingRadius < 0
    \/ Min(eng.p1[1], eng.p2[1]) - WorkingRadius >= lz_width
    \/ Max(eng.p1[2], eng.p2[2]) + WorkingRadius < 0
    \/ Min(eng.p1[2], eng.p2[2]) - WorkingRadius >= lz_height

InWorkingRect(r, c) ==
    /\ c >= Min(eng.p1[1], eng.p2[1]) - WorkingRadius
    /\ c <= Max(eng.p1[1], eng.p2[1]) + WorkingRadius
    /\ r >= Min(eng.p1[2], eng.p2[2]) - WorkingRadius
    /\ r <= Max(eng.p1[2], eng.p2[2]) + WorkingRadius

\* C18: a segment whose working rectangle is empty after clipping yields an
\* empty result rectangle and leaves every canvas pixel unchanged.
C18_EmptyWorkingRectIsNoOp ==
    (SegmentEnded /\ WorkingRectEmpty) =>
        /\ RectEmpty(eng.ret)
        /\ CanvasArr = eng.before

\* C18 witness: a size-3 tap at (6, 0), to the right of the 4 x 3 canvas that
\* holds ink, has returned.
C18_Witness ==
    /\ SegmentEnded
    /\ eng.given
    /\ eng.p1 = <<6, 0>> /\ eng.p2 = <<6, 0>>
    /\ BrushSize(eng.params) = 3
    /\ WorkingRectEmpty
    /\ RectEmpty(ProcessRect(eng.p1, eng.p2, 3, lz_width, lz_height))
    /\ CanvasArr = InkedImage(lz_height, lz_width)

\* C19: apply_basic_brush_stroke_segment changes no canvas pixel outside the
\* working rectangle.
C19_NothingChangesOutsideWorkingRect ==
    SegmentEnded =>
        \A r \in DOMAIN CanvasArr.px : \A c \in DOMAIN CanvasArr.px[r] :
            ~InWorkingRect(r, c) => CanvasArr.px[r][c] = eng.before.px[r][c]

\* C19 witness: a segment along the bottom row of an inked canvas reached the
\* paste of its local area (the exception path), and the top row lies
\* outside its working rectangle.
C19_Witness ==
    /\ SegmentEnded
    /\ eng.given
    /\ eng.raised
    /\ eng.p1 = <<3, 2>> /\ eng.p2 = <<0, 2>>
    /\ eng.rect = <<0, 1, 4, 2>>
    /\ ~InWorkingRect(0, 0)
    /\ ~IsNone(local_area)
    /\ eng.before.px[0][0] # eng.before.px[1][0]

\* C12: finalize_stroke with wetness <= 0 returns an empty rectangle and leaves
\* every canvas pixel unchanged, for any touched rectangle and brush size.
C12_DryFinalizeIsNoOp ==
    (FinalizeDone /\ ParamGet(eng.params, "wetness", 70) <= 0) =>
        /\ RectEmpty(eng.ret)
        /\ CanvasArr = eng.before

\* C12 witness: finalize_stroke was called with wetness <= 0 on a touched
\* rectangle inside a canvas that holds ink.
C12_Witness ==
    /\ FinalizeDone
    /\ eng.given
    /\ ParamGet(eng.params, "wetness", 70) <= 0
    /\ eng.touched = <<2, 1, 2, 2>>
    /\ CanvasArr = InkedImage(lz_height, lz_width)

\* C13: for wetness > 0 and a non-empty touched rectangle inside the canvas,
\* finalize_stroke returns a non-empty rectangle that contains the touched
\* rectangle (the touched rectangle expanded by the diffusion radius).
C13_WetFinalizeReturnsExpandedRect ==
    (/\ FinalizeDone /\ eng.given /\ eng.blur_ok
     /\ ParamGet(eng.params, "wetness", 70) > 0
     /\ ~RectEmpty(eng.touched)
     /\ eng.touched[1] >= 0 /\ eng.touched[1] + eng.touched[3] <= lz_width
     /\ eng.touched[2] >= 0 /\ eng.touched[2] + eng.touched[4] <= lz_height)
    => /\ ~RectEmpty(eng.ret)
       /\ eng.ret[1] <= eng.touched[1]
       /\ eng.ret[2] <= eng.touched[2]
       /\ eng.ret[1] + eng.ret[3] >= eng.touched[1] + eng.touched[3]
       /\ eng.ret[2] + eng.ret[4] >= eng.touched[2] + eng.touched[4]

\* C14: after finalize_stroke every sample of the canvas is <= its value before
\* the call, and every pixel outside the processing rectangle is unchanged.
C14_DiffusionDarkensOnly ==
    FinalizeDone =>
        \A r \in DOMAIN CanvasArr.px : \A c \in DOMAIN CanvasArr.px[r] :
            /\ \A k \in 1..3 : CanvasArr.px[r][c][k] <= eng.before.px[r][c][k]
            /\ ~InRect(r, c, eng.rect) => CanvasArr.px[r][c] = eng.before.px[r][c]

\* C14 witness: finalize_stroke ran with wetness > 0 on a canvas that holds
\* ink, and the filter returned for each pixel the lightest sample around it.
C14_Witness ==
    /\ FinalizeDone
    /\ eng.given /\ eng.blur_ok
    /\ ParamGet(eng.params, "wetness", 70) = 80
    /\ eng.touched = <<1, 1, 1, 1>>
    /\ eng.before = InkedImage(lz_height, lz_width)
    /\ ~IsNone(local_area)
    /\ Blurred(local_area, "lightest") # local_area

\* C20: the processing rectangle apply_localized_blur computes lies within
\* [0, W) x [0, H) for (W, H) = get_size(), also on non-square canvases, and
\* its dimensions are those of the buffer cropped for it.
C20_BlurRectWithinCanvas ==
    (FinalizeDone /\ ~RectEmpty(eng.rect)) =>
        /\ eng.rect[1] >= 0 /\ eng.rect[1] + eng.rect[3] <= lz_width
        /\ eng.rect[2] >= 0 /\ eng.rect[2] + eng.rect[4] <= lz_height
        /\ ~IsNone(local_area) =>
              local_area.shape = <<eng.rect[4], eng.rect[3], 3>>

\* The footprint of the last stamp in canvas coordinates: the brush square of
\* side brush_size whose top-left corner is the centre minus brush_size // 2
\* (lines 481-482), as <<x, y, w, h>>.
StampFootprint ==
    <<stamp.centre[1] + eng.rect[1] - BrushSize(eng.params) \div 2,
      stamp.centre[2] + eng.rect[2] - BrushSize(eng.params) \div 2,
      BrushSize(eng.params), BrushSize(eng.params)>>

\* C21: the working rectangle of a segment covers every stamp: the part of the
\* stamp's size x size footprint that lies on the canvas lies inside the
\* working rectangle, for every interpolated centre and every brush size.
C21_WorkingRectCoversStamps ==
    (stamp.i >= 0 /\ eng.kind = "segment") =>
        \A r \in 0..(lz_height - 1) : \A c \in 0..(lz_width - 1) :
            InRect(r, c, StampFootprint) => InRect(r, c, eng.rect)

\* C21 witness: a stamp of a segment whose working rectangle is not the whole
\* canvas, with a footprint that the canvas edge cuts.
C21_Witness ==
    /\ stamp.i >= 0
    /\ eng.kind = "segment"
    /\ eng.rect # <<0, 0, lz_width, lz_height>>
    /\ \/ StampFootprint[1] < 0
       \/ StampFootprint[2] < 0
       \/ StampFootprint[1] + StampFootprint[3] > lz_width
       \/ StampFootprint[2] + StampFootprint[4] > lz_height
    /\ \E r \in 0..(lz_height - 1) : \E c \in 0..(lz_width - 1) :
          InRect(r, c, StampFootprint)

\* The loop of the helper ran to its end: eng.i centres were interpolated.
LoopDone == eng.pc = "exit"

\* C22 as stated: the number of stamp centres interpolated along a segment is
\* max(1, round(distance / spacing)) + 1 for the Euclidean length distance of
\* p1 -> p2 and spacing = max(1, baseSize / 4).  round(d / s) = k means
\* (2k - 1) s <= 2 d <= (2k + 1) s, a tie going to the even k; with
\* s = S / 4 for S = max(4, baseSize) this is ((2k - 1) S)^2 <= 64 d^2 etc.
C22_StampCountBySpacing ==
    LoopDone =>
        LET dx == eng.p2_local[1] - eng.p1_local[1]
            dy == eng.p2_local[2] - eng.p1_local[2]
            S  == Max(4, BrushSize(eng.params))
            q  == 64 * (dx * dx + dy * dy)
            lo(k) == ((2 * k - 1) * S) * ((2 * k - 1) * S)
            rounded == CHOOSE k \in 0..(Abs(dx) + Abs(dy) + 1) :
                          /\ k = 0 \/ lo(k) <= q
                          /\ q <= lo(k + 1)
                          /\ (k > 0 /\ q = lo(k)) => k % 2 = 0
                          /\ q = lo(k + 1) => k % 2 = 0
        IN  eng.i = Max(1, rounded) + 1

\* C22 as amended: the number of stamp centres interpolated along a segment
\* is max(1, max(|dx|, |dy|)) + 1, one per pixel step along the longer axis,
\* whatever the brush size.
C22_StampCountByPixelSteps ==
    LoopDone =>
        eng.i = Max(1, Max(Abs(eng.p2_local[1] - eng.p1_local[1]),
                           Abs(eng.p2_local[2] - eng.p1_local[2]))) + 1

\* C22 witness: the loop ran to its end on a segment of 3 pixel steps with
\* the default brush size 15 (spacing 3.75), and on a slanted one.
C22_Witness ==
    /\ LoopDone
    /\ \/ /\ BrushSize(eng.params) = 15
          /\ Abs(eng.p2_local[1] - eng.p1_local[1]) = 3
          /\ eng.p2_local[2] = eng.p1_local[2]
          /\ eng.i = 4
       \/ /\ BrushSize(eng.params) = 15
          /\ Abs(eng.p2_local[1] - eng.p1_local[1]) = 2
          /\ Abs(eng.p2_local[2] - eng.p1_local[2]) = 1
          /\ eng.i = 3

\* C23: the effective opacity of a stamp at a pixel is
\* (density/100) * (flow/100) * mask * (1 - (feibai/100) * (1 - noise)): a
\* sample a stamp changes becomes 255 * (1 - that opacity), truncated (one
\* less where the float product fell just below an integer), and a stamp with
\* density = 0 or flow = 0 changes no pixel.
C23_OpacityIsDensityFlowMaskFeibai ==
    stamp.i >= 0 =>
        LET flow  == NpClip(ParamGet(eng.params, "flow", 100), 0, 100)
            size  == BrushSize(eng.params)
            noise == EffectiveNoise(stamp.before, eng.noise)
            bx    == stamp.centre[1] - size \div 2
            by    == stamp.centre[2] - size \div 2
            den5  == 20 * Grain * 100 * Grain * 100
            num(r, c, k) ==
                Density(eng.params) * flow
                * MaskArr(eng.mask_pat, size).px[r - by][c - bx][1]
                * (100 * Grain - Feibai(eng.params) * (Grain - noise.px[r][c][k]))
            shade(r, c, k) == 255 - (51 * num(r, c, k) + den5 - 1) \div den5
        IN  /\ (Density(eng.params) = 0 \/ flow = 0) => local_area = stamp.before
            /\ \A r \in DOMAIN local_area.px : \A c \in DOMAIN local_area.px[r] :
                  \A k \in DOMAIN local_area.px[r][c] :
                      local_area.px[r][c][k] # stamp.before.px[r][c][k] =>
                          \/ local_area.px[r][c][k] = shade(r, c, k)
                          \/ /\ eng.fuzz
                             /\ local_area.px[r][c][k] = shade(r, c, k) - 1

\* The stamp's footprint in buffer coordinates: brush_size x brush_size from
\* centre - brush_size // 2 (lines 481-484).
InFootprint(r, c) ==
    LET size == BrushSize(eng.params)
        xs   == stamp.centre[1] - size \div 2
        ys   == stamp.centre[2] - size \div 2
    IN  c >= xs /\ c < xs + size /\ r >= ys /\ r < ys + size

\* The mask returned for the last stamp has the side the stamp asked for.
MaskFits ==
    shape_call.shape = <<BrushSize(eng.params), BrushSize(eng.params)>>

\* C24: a single stamp changes only pixels of the local buffer inside its
\* footprint; when the footprint has no pixel in the buffer, or the mask does
\* not have the footprint's shape, the stamp changes no pixel at all.
C24_StampStaysInFootprint ==
    stamp.i >= 0 =>
        /\ \A r \in DOMAIN local_area.px : \A c \in DOMAIN local_area.px[r] :
              ~InFootprint(r, c) => local_area.px[r][c] = stamp.before.px[r][c]
        /\ (\A r \in DOMAIN local_area.px : \A c \in DOMAIN local_area.px[r] :
               ~InFootprint(r, c)) => local_area = stamp.before
        /\ ~MaskFits => local_area = stamp.before

\* C24 witness: a stamp darkened a pixel inside its footprint while an inked
\* pixel of the buffer lay outside the footprint.
C24_Witness ==
    /\ stamp.i >= 0
    /\ \E r \in DOMAIN local_area.px : \E c \in DOMAIN local_area.px[r] :
          /\ InFootprint(r, c)
          /\ local_area.px[r][c][1] < stamp.before.px[r][c][1]
    /\ \E r \in DOMAIN local_area.px : \E c \in DOMAIN local_area.px[r] :
          /\ ~InFootprint(r, c)
          /\ stamp.before.px[r][c][1] < 255
          /\ stamp.before.px[r][c][1] > 0

\* C25: the interpolated stamp centres of a segment start at p1 and end at p2
\* (local coordinates), are visited in the order of the interpolation
\* parameter i / num_steps, and two consecutive centres differ by at most one
\* pixel on each axis.
C25_CentresStepByOnePixel ==
    stamp.i >= 0 =>
        LET n    == NumSteps(eng.p1_local, eng.p2_local)
            prev == StampCentre(eng.p1_local, eng.p2_local, stamp.i - 1)
        IN  /\ stamp.i = eng.i - 1
            /\ stamp.i \in 0..n
            /\ stamp.i = 0 => stamp.centre = eng.p1_local
            /\ stamp.i = n => stamp.centre = eng.p2_local
            /\ stamp.i >= 1 =>
                  /\ Abs(stamp.centre[1] - prev[1]) <= 1
                  /\ Abs(stamp.centre[2] - prev[2]) <= 1

(***************************************************************************)
(* InkCanvasWidget: the pointer events of a stroke                         *)
(***************************************************************************)

\* Pointer events delivered to the widget in one behaviour.
MaxEvents == 3

AfterStamp(centre, rest) == [rest EXCEPT !.centres = <<centre>> \o @]

RECURSIVE InkLoop(_, _, _, _, _, _, _)
InkLoop(local, noise, p1_local, p2_local, params, env, i) ==
    LET size   == BrushSize(params)
        res    == GetScaledRotated(brush_shapes, BrushType(params), size,
                                   AngleDegrees(p2_local[1] - p1_local[1],
                                                p2_local[2] - p1_local[2]),
                                   ResizeReturns(params, env.resize_ok))
        centre == StampCentre(p1_local, p2_local, i)
        mask   == IF res.shape = <<size, size>> THEN MaskArr(env.mask_pat, size)
                  ELSE [NoneArr EXCEPT !.shape = res.shape, !.dtype = "float32"]
    IN  IF i > NumSteps(p1_local, p2_local)
        THEN [local |-> local, centres |-> <<>>, raised |-> FALSE]
        ELSE IF res.raised
        THEN [local |-> local, centres |-> <<>>, raised |-> TRUE]
        ELSE CHOOSE rest \in
                 {AfterStamp(centre, InkLoop(stamped, noise, p1_local, p2_local,
                                             params, env, i + 1)) :
                     stamped \in {StampLocal(local, EffectiveNoise(local, noise), mask,
                                             centre, size, Density(params),
                                             Feibai(params), env.fuzz)}} : TRUE

\* The end of apply_basic_brush_stroke_segment (lines 612-641) for the
\* outcome inked of the helper on the crop at rect.
AfterInk(cd, rect, inked, width, height) ==
    LET centres == [j \in DOMAIN inked.centres |->
                       <<inked.centres[j][1] + rect[1], inked.centres[j][2] + rect[2]>>]
    IN  IF inked.raised
        THEN [ret |-> QRectNull, centres |-> centres,
              canvas |-> PasteArea(cd, rect, inked.local, width, height)]
        ELSE IF inked.local.shape = <<rect[4], rect[3]>>
        THEN [ret |-> rect, centres |-> centres,
              canvas |-> PasteArea(cd, rect, inked.local, width, height)]
        ELSE [ret |-> QRectNull, canvas |-> cd, centres |-> centres]

\* apply_basic_brush_stroke_segment(lienzo, p1, p2, brush_params) as one call
\* (lines 520-641): the rectangle returned, the canvas afterwards, and the
\* stamp centres in canvas coordinates in the order they were applied.
ApplySegment(cd, p1, p2, params, env, width, height) ==
    LET rect    == ProcessRect(p1, p2, BrushSize(params), width, height)
        nothing == [ret |-> QRectNull, canvas |-> cd, centres |-> <<>>]
    IN  IF width <= 0 \/ height <= 0 THEN nothing
        ELSE IF rect[3] <= 0 \/ rect[4] <= 0 THEN nothing
        ELSE CHOOSE out \in
                 {IF IsNone(local) \/ ArrSize(local) = 0 THEN nothing
                  ELSE CHOOSE o \in
                           {AfterInk(cd, rect, inked, width, height) :
                               inked \in {InkLoop(local,
                                                  NoiseArr(env.noise_pat, local.shape[1],
                                                           local.shape[2]),
                                                  <<p1[1] - rect[1], p1[2] - rect[2]>>,
                                                  <<p2[1] - rect[1], p2[2] - rect[2]>>,
                                                  params, env, 0)}} : TRUE :
                     local \in {CropArea(cd, rect, width, height)}} : TRUE

\* QRect.isValid(): left <= right and top <= bottom.
QRectIsValid(r) == r[3] >= 1 /\ r[4] >= 1

\* QRect.united(other) of two valid rectangles: their bounding rectangle.
QRectUnited(a, b) ==
    LET x1 == Min(a[1], b[1])
        y1 == Min(a[2], b[2])
        x2 == Max(a[1] + a[3], b[1] + b[3])
        y2 == Max(a[2] + a[4], b[2] + b[4])
    IN  <<x1, y1, x2 - x1, y2 - y1>>

AccumulateLatest(region, inked_rect) ==
    IF QRectIsValid(inked_rect) /\ ~QRectIsNull(inked_rect) THEN inked_rect ELSE region

\* The accumulation of an inked rectangle into _stroke_inked_region_canvas
\* (lines 192-196, 253-257, 310-314).
Accumulate(region, inked_rect) ==
    IF QRectIsValid(inked_rect) /\ ~QRectIsNull(inked_rect)
    THEN IF QRectIsNull(region) THEN inked_rect ELSE QRectUnited(region, inked_rect)
    ELSE region

\* _widget_to_canvas(widget_point) (lines 387-407): int(x * cw / ww), clamped
\* to the canvas.
WidgetToCanvas(point) ==
    IF widget.width <= 0 \/ widget.height <= 0 THEN <<-1, -1>>
    ELSE <<IF lz_width > 0
           THEN Max(0, Min(TruncDiv(point[1] * lz_width, widget.width), lz_width - 1))
           ELSE 0,
           IF lz_height > 0
           THEN Max(0, Min(TruncDiv(point[2] * lz_height, widget.height), lz_height - 1))
           ELSE 0>>

\* One entry of the record of what the widget did: an event delivered (p1 its
\* position), a segment applied, the finalize step of a stroke, a call of
\* finalize_stroke.
LogEntry(op, name, handled, p1, p2, centres) ==
    [op |-> op, name |-> name, handled |-> handled, stroke |-> widget.stroke,
     p1 |-> p1, p2 |-> p2, centres |-> centres, ret |-> QRectNull,
     raised |-> FALSE]

EventEntry(name, handled, pos) == LogEntry("event", name, handled, pos, pos, <<>>)

SegmentEntry(name, p1, p2, centres) == LogEntry("segment", name, TRUE, p1, p2, centres)

\* A call of apply_basic_brush_stroke_segment as the handler saw it: the
\* rectangle it returned, or the exception it raised.
SegmentCallEntry(name, p1, p2, out, raises) ==
    IF raises
    THEN [SegmentEntry(name, p1, p2, <<>>) EXCEPT !.raised = TRUE]
    ELSE [SegmentEntry(name, p1, p2, out.centres) EXCEPT !.ret = out.ret]

AbortedKeepsLastPoint(w) == [w EXCEPT !.is_drawing = FALSE]

\* The except branch of mousePressEvent and of mouseMoveEvent (lines 182-184,
\* 249-251): the stroke is given up.
Aborted(w) ==
    [w EXCEPT !.is_drawing = FALSE,
              !.last_point_widget = NoPoint,
              !.stroke_inked_region_canvas = QRectNull]

FinalizeCurrentStrokeUnguarded(cd, region, env) ==
    [canvas |-> cd,
     entries |-> <<LogEntry("finalize", "release", TRUE, <<0, 0>>, <<0, 0>>, <<>>),
                   LogEntry("finalize_stroke", "release", TRUE,
                            <<region[1], region[2]>>, <<region[3], region[4]>>, <<>>)>>]

\* _finalize_current_stroke() (lines 337-380) on the accumulated region: the
\* canvas afterwards and the entries it adds.
FinalizeCurrentStroke(cd, region, env) ==
    LET res == FinalizeStroke(cd, TRUE, region, widget.current_brush_params,
                              lz_width, lz_height, env.kind, env.blur_ok)
    IN  IF QRectIsNull(region) \/ ~QRectIsValid(region)
        THEN [canvas |-> cd,
              entries |-> <<LogEntry("finalize", "release", TRUE, <<0, 0>>, <<0, 0>>, <<>>)>>]
        ELSE [canvas |-> res.canvas,
              entries |-> <<LogEntry("finalize", "release", TRUE, <<0, 0>>, <<0, 0>>, <<>>),
                            LogEntry("finalize_stroke", "release", TRUE,
                                     <<region[1], region[2]>>, <<region[3], region[4]>>,
                                     <<>>)>>]

\* Where the pointer can be (widget coordinates; the widget is 8 x 3 over a
\* 4 x 3 canvas, so the first two lie on one canvas pixel).
WidgetPoints == {<<0, 0>>, <<1, 0>>, <<5, 2>>}

\* A press: <<position, left button>>.
WidgetPresses == {<<pt, TRUE>> : pt \in WidgetPoints} \cup {<<<<5, 2>>, FALSE>>}

\* What the calls of one handler meet in the engine: the noise drawn, the
\* mask values, the float rounding, whether cv2.resize returns, what
\* cv2.bilateralFilter does, and whether apply_basic_brush_stroke_segment
\* raises before it touches the canvas (brush_engine.py line 546 is outside
\* every try).
WidgetEnvs ==
    {[noise_pat |-> "mixed", mask_pat |-> "disc", fuzz |-> FALSE, resize_ok |-> TRUE,
      kind |-> "mean", blur_ok |-> TRUE, raises |-> FALSE],
     [noise_pat |-> "high",  mask_pat |-> "full", fuzz |-> TRUE,  resize_ok |-> FALSE,
      kind |-> "same", blur_ok |-> FALSE, raises |-> FALSE],
     [noise_pat |-> "mixed", mask_pat |-> "disc", fuzz |-> FALSE, resize_ok |-> TRUE,
      kind |-> "mean", blur_ok |-> TRUE, raises |-> TRUE]}

\* Parameter changes the control panel sends.
WidgetParamChanges == {[size |-> 3, wetness |-> 80]}

WidgetInit ==
    /\ LienzoConstructed(<<4, 3, White>>)
    /\ main_window = MainWindowConstructed
    /\ \E asset \in {[kind |-> "no_folder", dims |-> <<0, 0>>],
                     [kind |-> "image", dims |-> <<3, 3>>]} : EngineImported(asset)

\* An event the handler passes on to the base class without handling it.
Ignored(name, pos) ==
    /\ widget' = [widget EXCEPT !.events = @ + 1,
                                !.log = Append(@, EventEntry(name, FALSE, pos))]
    /\ UNCHANGED heap

\* set_brush_params(params): dict.update (lines 70-74).
SetBrushParams(params) ==
    /\ widget' = [widget EXCEPT !.current_brush_params =
                    [k \in DOMAIN @ \cup DOMAIN params |->
                        IF k \in DOMAIN params THEN params[k] ELSE @[k]]]
    /\ widget'.current_brush_params # widget.current_brush_params
    /\ UNCHANGED <<main_window, lienzoVars, last_call, prev_call, ncalls, engineVars>>

\* mousePressEvent (lines 142-208)
MousePress(pos, left, env) ==
    /\ widget.events < MaxEvents
    /\ IF ~left THEN Ignored("press", pos)
       ELSE LET point == WidgetToCanvas(pos)
                entries(out) ==
                    <<[EventEntry("press", TRUE, pos) EXCEPT !.stroke = @ + 1],
                      [SegmentCallEntry("press", point, point, out, env.raises)
                          EXCEPT !.stroke = @ + 1]>>
            IN  IF env.raises
                THEN /\ widget' = [Aborted(widget) EXCEPT
                          !.events = @ + 1,
                          !.stroke = @ + 1,
                          !.log = @ \o entries(<<>>)]
                     /\ UNCHANGED heap
                ELSE \E out \in {ApplySegment(CanvasArr, point, point,
                                              widget.current_brush_params, env,
                                              lz_width, lz_height)} :
                     /\ heap' = [heap EXCEPT ![canvas_data] = out.canvas]
                     /\ widget' = [widget EXCEPT
                          !.events = @ + 1,
                          !.is_drawing = TRUE,
                          !.last_point_widget = pos,
                          !.stroke = @ + 1,
                          !.stroke_inked_region_canvas = Accumulate(QRectNull, out.ret),
                          !.log = @ \o entries(out)]
    /\ UNCHANGED <<main_window, lz_width, lz_height, canvas_data, caller_arr, last_call, prev_call,
                   ncalls, engineVars>>

\* mouseMoveEvent (lines 210-274)
MouseMove(pos, left, env) ==
    /\ widget.events < MaxEvents
    /\ IF ~widget.is_drawing \/ widget.last_point_widget = NoPoint \/ ~left
       THEN Ignored("move", pos)
       ELSE LET canvas_last_point    == WidgetToCanvas(widget.last_point_widget)
                canvas_current_point == WidgetToCanvas(pos)
            IN  IF canvas_last_point = canvas_current_point
                THEN /\ widget' = [widget EXCEPT
                          !.events = @ + 1,
                          !.last_point_widget = pos,
                          !.log = Append(@, EventEntry("move", TRUE, pos))]
                     /\ UNCHANGED heap
                ELSE IF env.raises
                THEN /\ widget' = [Aborted(widget) EXCEPT
                          !.events = @ + 1,
                          !.log = @ \o <<EventEntry("move", TRUE, pos),
                                         SegmentCallEntry("move", canvas_last_point,
                                                          canvas_current_point,
                                                          <<>>, TRUE)>>]
                     /\ UNCHANGED heap
                ELSE \E out \in {ApplySegment(CanvasArr, canvas_last_point,
                                              canvas_current_point,
                                              widget.current_brush_params, env,
                                              lz_width, lz_height)} :
                     /\ heap' = [heap EXCEPT ![canvas_data] = out.canvas]
                     /\ widget' = [widget EXCEPT
                          !.events = @ + 1,
                          !.last_point_widget = pos,
                          !.stroke_inked_region_canvas = Accumulate(@, out.ret),
                          !.log = @ \o <<EventEntry("move", TRUE, pos),
                                         SegmentCallEntry("move", canvas_last_point,
                                                          canvas_current_point,
                                                          out, FALSE)>>]
    /\ UNCHANGED <<main_window, lz_width, lz_height, canvas_data, caller_arr, last_call, prev_call,
                   ncalls, engineVars>>

MouseReleaseFinalizesFirst(pos, left, env) ==
    /\ widget.events < MaxEvents
    /\ IF ~widget.is_drawing \/ ~left
       THEN Ignored("release", pos)
       ELSE LET canvas_last_point    == WidgetToCanvas(widget.last_point_widget)
                canvas_current_point == WidgetToCanvas(pos)
                fin == FinalizeCurrentStroke(CanvasArr,
                                             widget.stroke_inked_region_canvas, env)
                out == ApplySegment(fin.canvas, canvas_last_point, canvas_current_point,
                                    widget.current_brush_params, env,
                                    lz_width, lz_height)
            IN  /\ heap' = [heap EXCEPT ![canvas_data] = out.canvas]
                /\ widget' = [widget EXCEPT
                     !.events = @ + 1,
                     !.is_drawing = FALSE,
                     !.last_point_widget = NoPoint,
                     !.stroke_inked_region_canvas = QRectNull,
                     !.log = @ \o <<EventEntry("release", TRUE, pos)>> \o fin.entries
                               \o <<SegmentEntry("release", canvas_last_point,
                                                 canvas_current_point, out.centres)>>]
    /\ UNCHANGED <<main_window, lz_width, lz_height, canvas_data, caller_arr, last_call, prev_call,
                   ncalls, engineVars>>

\* mouseReleaseEvent (lines 276-335): the last segment, if the pointer moved
\* to another canvas pixel, then _finalize_current_stroke(), then the reset.
MouseRelease(pos, left, env) ==
    /\ widget.events < MaxEvents
    /\ IF ~widget.is_drawing \/ ~left
       THEN Ignored("release", pos)
       ELSE LET canvas_last_point    == WidgetToCanvas(widget.last_point_widget)
                canvas_current_point == WidgetToCanvas(pos)
                moved == /\ widget.last_point_widget # NoPoint
                         /\ canvas_last_point # canvas_current_point
                nocall == [ret |-> QRectNull, canvas |-> CanvasArr, centres |-> <<>>]
            IN  \E out \in {IF moved /\ ~env.raises
                            THEN ApplySegment(CanvasArr, canvas_last_point,
                                              canvas_current_point,
                                              widget.current_brush_params, env,
                                              lz_width, lz_height)
                            ELSE nocall} :
                \E fin \in {FinalizeCurrentStroke(
                                out.canvas,
                                Accumulate(widget.stroke_inked_region_canvas, out.ret),
                                env)} :
                /\ heap' = [heap EXCEPT ![canvas_data] = fin.canvas]
                /\ widget' = [widget EXCEPT
                     !.events = @ + 1,
                     !.is_drawing = FALSE,
                     !.last_point_widget = NoPoint,
                     !.stroke_inked_region_canvas = QRectNull,
                     !.log = @ \o <<EventEntry("release", TRUE, pos)>>
                               \o (IF moved
                                   THEN <<SegmentCallEntry("release", canvas_last_point,
                                                           canvas_current_point,
                                                           out, env.raises)>>
                                   ELSE <<>>)
                               \o fin.entries]
    /\ UNCHANGED <<main_window, lz_width, lz_height, canvas_data, caller_arr, last_call, prev_call,
                   ncalls, engineVars>>

WidgetNext ==
    \/ \E params \in WidgetParamChanges : SetBrushParams(params)
    \/ \E ev \in WidgetPresses, env \in WidgetEnvs : MousePress(ev[1], ev[2], env)
    \/ \E pos \in WidgetPoints, env \in WidgetEnvs : MouseMove(pos, TRUE, env)
    \/ \E pos \in WidgetPoints, env \in WidgetEnvs :
          MouseRelease(pos, TRUE, env)

SpecWidget == WidgetInit /\ [][WidgetNext]_vars

\* Chebyshev distance between two points.
Cheb(a, b) == Max(Abs(a[1] - b[1]), Abs(a[2] - b[2]))

\* The stamps of the segment entry e run from p1 to p2: the first at p1, the
\* last at p2, each no nearer to p1 and no farther from p2 than the one before
\* (no stamp at all when the mask lookup raised in the first iteration).
InPathOrder(e) ==
    \/ e.centres = <<>>
    \/ /\ e.centres[1] = e.p1
       /\ e.centres[Len(e.centres)] = e.p2
       /\ \A j \in 1..(Len(e.centres) - 1) :
             /\ Cheb(e.centres[j + 1], e.p1) >= Cheb(e.centres[j], e.p1)
             /\ Cheb(e.centres[j + 1], e.p2) <= Cheb(e.centres[j], e.p2)

\* The segment entries of the stroke of entry k that precede it.
EarlierSegments(k) ==
    {j \in 1..(k - 1) : /\ widget.log[j].op = "segment"
                        /\ widget.log[j].stroke = widget.log[k].stroke}

\* C16: within a stroke the stamps of a segment are applied in path order from
\* p1 to p2; the segments are applied in the order of the pointer events (each
\* right after its event, ending at the event's point and starting where the
\* segment before it ended); the finalize step of a stroke comes after every
\* segment of the stroke, the release segment included, finalize_stroke is
\* called only in that step, and no segment of the stroke follows it.
C16_StrokeOrdering ==
    \A k \in DOMAIN widget.log :
        LET e == widget.log[k]
        IN  /\ e.op = "segment" =>
                  /\ InPathOrder(e)
                  /\ k > 1
                  /\ widget.log[k - 1].op = "event"
                  /\ widget.log[k - 1].handled
                  /\ widget.log[k - 1].name = e.name
                  /\ widget.log[k - 1].stroke = e.stroke
                  /\ e.p2 = WidgetToCanvas(widget.log[k - 1].p1)
                  /\ IF EarlierSegments(k) = {}
                     THEN e.name = "press" /\ e.p1 = e.p2
                     ELSE e.p1 = widget.log[CHOOSE m \in EarlierSegments(k) :
                                               \A j \in EarlierSegments(k) : j <= m].p2
                  /\ \A j \in 1..(k - 1) :
                        widget.log[j].op \in {"finalize", "finalize_stroke"}
                            => widget.log[j].stroke # e.stroke
            /\ e.op = "finalize" =>
                  /\ k > 1
                  /\ \/ /\ widget.log[k - 1].op = "segment"
                        /\ widget.log[k - 1].name = "release"
                        /\ widget.log[k - 1].stroke = e.stroke
                     \/ /\ widget.log[k - 1].op = "event"
                        /\ widget.log[k - 1].name = "release"
                        /\ widget.log[k - 1].handled
                        /\ EarlierSegments(k) # {}
                        /\ WidgetToCanvas(widget.log[k - 1].p1)
                           = widget.log[CHOOSE m \in EarlierSegments(k) :
                                           \A j \in EarlierSegments(k) : j <= m].p2
            /\ e.op = "finalize_stroke" =>
                  /\ k > 1
                  /\ widget.log[k - 1].op = "finalize"
                  /\ widget.log[k - 1].stroke = e.stroke
            /\ (e.op = "event" /\ e.name = "release" /\ e.handled) =>
                  \E j \in {k + 1, k + 2} :
                      /\ j <= Len(widget.log)
                      /\ widget.log[j].op = "finalize"
                      /\ widget.log[j].stroke = e.stroke

\* C16 witness: a stroke with a press segment, a move segment of several
\* stamps and a release segment, and then its finalize step.
C16_Witness ==
    \E k \in DOMAIN widget.log :
        /\ widget.log[k].op = "finalize"
        /\ k > 1
        /\ widget.log[k - 1].op = "segment"
        /\ widget.log[k - 1].name = "release"
        /\ \E j \in EarlierSegments(k) :
              /\ widget.log[j].name = "move"
              /\ Len(widget.log[j].centres) >= 3
              /\ widget.log[j].p1 # widget.log[j].p2

\* C26: whenever the widget is not drawing it holds no stroke: the last point
\* is None and the accumulated stroke region is the null rectangle, after any
\* press, move and release events, those in which the engine raises included.
C26_NotDrawingHoldsNoStroke ==
    ~widget.is_drawing =>
        /\ widget.last_point_widget = NoPoint
        /\ widget.stroke_inked_region_canvas = QRectNull

\* C26 witness: the engine raised in a move of a stroke in progress, and the
\* widget is not drawing afterwards.
C26_Witness ==
    /\ ~widget.is_drawing
    /\ \E k \in DOMAIN widget.log :
          /\ widget.log[k].op = "segment"
          /\ widget.log[k].name = "move"
          /\ widget.log[k].raised
          /\ widget.log[k].stroke = widget.stroke

(***************************************************************************)
(* The accumulation step of the handlers and _finalize_current_stroke as   *)
(* functions of the rectangle a segment call hands back.                   *)
(***************************************************************************)

\* Rectangles of the type a segment call returns: QRect(), rectangles that
\* are not valid, and valid ones on and partly off the 4 x 3 canvas.
ReturnedRects ==
    {QRectNull, <<1, 1, 0, 2>>, <<2, 0, -1, -1>>,
     <<0, 0, 1, 1>>, <<2, 1, 2, 2>>, <<1, 0, 1, 3>>}

\* inked_rect_canvas is accumulated (lines 192-198, 258-264, 303-309).
AccumulateStep(inked_rect) ==
    /\ widget.events < MaxEvents
    /\ widget' = [widget EXCEPT
         !.events = @ + 1,
         !.stroke_inked_region_canvas = Accumulate(@, inked_rect),
         !.log = Append(@, [SegmentEntry("move", <<0, 0>>, <<0, 0>>, <<>>)
                               EXCEPT !.ret = inked_rect])]
    /\ UNCHANGED <<main_window, lienzoVars, last_call, prev_call, ncalls, engineVars>>

\* _finalize_current_stroke() on the region accumulated so far (lines 337-380).
FinalizeStep(env) ==
    /\ widget.events < MaxEvents
    /\ LET fin == FinalizeCurrentStroke(CanvasArr, widget.stroke_inked_region_canvas, env)
       IN  /\ heap' = [heap EXCEPT ![canvas_data] = fin.canvas]
           /\ widget' = [widget EXCEPT !.events = @ + 1, !.log = @ \o fin.entries]
    /\ UNCHANGED <<main_window, lz_width, lz_height, canvas_data, caller_arr, last_call, prev_call,
                   ncalls, engineVars>>

RegionNext ==
    \/ \E inked_rect \in ReturnedRects : AccumulateStep(inked_rect)
    \/ \E env \in WidgetEnvs : FinalizeStep(env)
    \/ \E params \in WidgetParamChanges : SetBrushParams(params)

SpecRegion == WidgetInit /\ [][RegionNext]_vars

\* The non-empty rectangles the segment calls before entry k + 1 returned.
NonEmptyRets(k) ==
    {widget.log[j].ret : j \in {m \in 1..k :
        /\ widget.log[m].op = "segment"
        /\ QRectIsValid(widget.log[m].ret)
        /\ ~QRectIsNull(widget.log[m].ret)}}

\* The smallest rectangle that contains every rectangle of S; QRect() for none.
BoundingUnion(S) ==
    IF S = {} THEN QRectNull
    ELSE LET x1 == CHOOSE v \in {r[1] : r \in S} : \A r \in S : v <= r[1]
             y1 == CHOOSE v \in {r[2] : r \in S} : \A r \in S : v <= r[2]
             x2 == CHOOSE v \in {r[1] + r[3] : r \in S} : \A r \in S : v >= r[1] + r[3]
             y2 == CHOOSE v \in {r[2] + r[4] : r \in S} : \A r \in S : v >= r[2] + r[4]
         IN  <<x1, y1, x2 - x1, y2 - y1>>

StrokeAccumulate(inked_rect) ==
    /\ widget.is_drawing
    /\ AccumulateStep(inked_rect)

StrokeNext ==
    \/ WidgetNext
    \/ \E inked_rect \in ReturnedRects : StrokeAccumulate(inked_rect)

SpecStroke == WidgetInit /\ [][StrokeNext]_vars

\* The non-empty rectangles returned to the stroke of entry k before entry k.
StrokeRets(k) ==
    {widget.log[j].ret : j \in {m \in 1..(k - 1) :
        /\ widget.log[m].op = "segment"
        /\ widget.log[m].stroke = widget.log[k].stroke
        /\ QRectIsValid(widget.log[m].ret)
        /\ ~QRectIsNull(widget.log[m].ret)}}

\* C28: finalize_stroke is invoked at most once per stroke, only in the
\* finalize step of a release that found the stroke in progress, and in that
\* step exactly when the accumulated region is non-empty; a release that finds
\* no stroke in progress invokes neither a segment call nor finalize_stroke,
\* and after an engine error in a press or a move the stroke gets no further
\* segment call and no finalize step.
C28_FinalizeOncePerLiveStroke ==
    \A k \in DOMAIN widget.log :
        LET e == widget.log[k]
        IN  /\ e.op = "finalize_stroke" =>
                  /\ k > 1
                  /\ widget.log[k - 1].op = "finalize"
                  /\ widget.log[k - 1].stroke = e.stroke
                  /\ \A j \in 1..(k - 1) :
                        widget.log[j].op = "finalize_stroke"
                            => widget.log[j].stroke # e.stroke
            /\ e.op = "finalize" =>
                  /\ \E j \in {k - 1, k - 2} :
                        /\ j >= 1
                        /\ widget.log[j].op = "event"
                        /\ widget.log[j].name = "release"
                        /\ widget.log[j].handled
                        /\ widget.log[j].stroke = e.stroke
                  /\ (/\ k < Len(widget.log)
                      /\ widget.log[k + 1].op = "finalize_stroke"
                      /\ widget.log[k + 1].stroke = e.stroke)
                        <=> ~QRectIsNull(BoundingUnion(StrokeRets(k)))
            /\ (e.op = "event" /\ e.name = "release" /\ ~e.handled) =>
                  \/ k = Len(widget.log)
                  \/ widget.log[k + 1].op = "event"
            /\ (e.op = "segment" /\ e.raised /\ e.name # "release") =>
                  \A j \in (k + 1)..Len(widget.log) :
                      widget.log[j].stroke = e.stroke =>
                          /\ widget.log[j].op = "event"
                          /\ ~widget.log[j].handled

\* C28 witness: a stroke was released with a non-empty region, its last
\* segment was applied and finalize_stroke was invoked for it, and the widget
\* is not drawing any more.
C28_Witness ==
    /\ Len(widget.log) >= 3
    /\ widget.log[Len(widget.log)].op = "finalize_stroke"
    /\ widget.log[Len(widget.log) - 2].op = "segment"
    /\ widget.log[Len(widget.log) - 2].name = "release"
    /\ ~widget.is_drawing

(***************************************************************************)
(* MainWindow: the undo history.                                           *)
(***************************************************************************)

\* _load_history_state(index) (lines 206-221)
LoadHistoryState(mw, index) ==
    IF 0 <= index /\ index < Len(mw.history)
    THEN UpdateActionStates([mw EXCEPT !.canvas = mw.history[index + 1],
                                       !.history_index = index])
    ELSE mw

\* The history is emptied and the canvas saved as its first state
\* (lines 291-293, 391-393, 439-441).
ResetHistory(mw, content) ==
    SaveHistoryState([mw EXCEPT !.history = <<>>, !.history_index = -1,
                                !.canvas = content, !.resets = @ + 1])

\* A stroke changes the canvas and _on_stroke_finished() (lines 260-262)
\* saves it.
StrokeSaved(mw) == SaveHistoryState([mw EXCEPT !.canvas = mw.saves])

\* The window mw after n more strokes.
RECURSIVE AfterStrokes(_, _)
AfterStrokes(mw, n) ==
    IF n = 0 THEN mw
    ELSE IF n = 1 THEN StrokeSaved(mw)
    ELSE CHOOSE after \in {AfterStrokes(half, n - n \div 2) :
                              half \in {AfterStrokes(mw, n \div 2)}} : TRUE

HistoryInit ==
    /\ LienzoConstructed(<<4, 3, White>>)
    /\ EngineImported([kind |-> "no_folder", dims |-> <<0, 0>>])
    /\ \E n \in 0..MaxDrawn : main_window = AfterStrokes(MainWindowConstructed, n)

OnStrokeFinished ==
    /\ main_window.strokes < MaxSaves
    /\ main_window' = [StrokeSaved(main_window) EXCEPT !.strokes = @ + 1]
    /\ UNCHANGED <<lienzoVars, last_call, prev_call, ncalls, engineVars, widget>>

\* _undo() (lines 250-253)
Undo ==
    /\ main_window.moves < MaxMoves
    /\ main_window' =
          [(IF main_window.history_index > 0
            THEN LoadHistoryState(main_window, main_window.history_index - 1)
            ELSE main_window) EXCEPT !.moves = @ + 1]
    /\ UNCHANGED <<lienzoVars, last_call, prev_call, ncalls, engineVars, widget>>

\* _redo() (lines 255-258)
Redo ==
    /\ main_window.moves < MaxMoves
    /\ main_window' =
          [(IF main_window.history_index < Len(main_window.history) - 1
            THEN LoadHistoryState(main_window, main_window.history_index + 1)
            ELSE main_window) EXCEPT !.moves = @ + 1]
    /\ UNCHANGED <<lienzoVars, last_call, prev_call, ncalls, engineVars, widget>>

\* _clear_canvas() (lines 434-442): the canvas is filled white.
ClearCanvas ==
    /\ main_window.resets < MaxResets
    /\ main_window' = ResetHistory(main_window, 0)
    /\ UNCHANGED <<lienzoVars, last_call, prev_call, ncalls, engineVars, widget>>

\* _load_image() (lines 377-400) with a file chosen and read.
LoadImage ==
    /\ main_window.resets < MaxResets
    /\ main_window' = ResetHistory(main_window, -1)
    /\ UNCHANGED <<lienzoVars, last_call, prev_call, ncalls, engineVars, widget>>

\* _new_canvas() (lines 272-300) with both dialogs accepted: a white canvas.
NewCanvas ==
    /\ main_window.resets < MaxResets
    /\ main_window' = ResetHistory(main_window, 0)
    /\ UNCHANGED <<lienzoVars, last_call, prev_call, ncalls, engineVars, widget>>

HistoryNext ==
    \/ OnStrokeFinished
    \/ Undo
    \/ Redo
    \/ ClearCanvas
    \/ LoadImage
    \/ NewCanvas

SpecHistory == HistoryInit /\ [][HistoryNext]_vars

\* C29: after MainWindow.__init__ and any sequence of saves, undos, redos,
\* clears, image loads and new canvases the history holds between 1 and 100
\* states, _history_index points into it, and the undo action is enabled
\* exactly when there is an earlier state, the redo action exactly when there
\* is a later one.
C29_HistoryBounds ==
    /\ 1 <= Len(main_window.history)
    /\ Len(main_window.history) <= 100
    /\ 0 <= main_window.history_index
    /\ main_window.history_index <= Len(main_window.history) - 1
    /\ main_window.undo_enabled <=> main_window.history_index > 0
    /\ main_window.redo_enabled <=> main_window.history_index < Len(main_window.history) - 1

\* C29 witness: the history is full, its oldest states have been popped, and
\* after an undo both actions are enabled.
C29_Witness ==
    /\ Len(main_window.history) = 100
    /\ main_window.history[1] > 0
    /\ main_window.undo_enabled
    /\ main_window.redo_enabled

\* C30: a save made while later states exist (after one or more undos)
\* discards them: right after _save_history_state the new snapshot is the last
\* entry, _history_index = len(_history) - 1, the redo action is disabled, and
\* the states up to the previous index are kept in order and content, short of
\* those the 100-state cap pops from the front.
C30_SaveDiscardsLaterStates ==
    [][(/\ main_window'.saves = main_window.saves + 1
        /\ main_window'.resets = main_window.resets
        /\ main_window.history_index < Len(main_window.history) - 1)
       => LET old    == main_window
              new    == main_window'
              kept   == Len(new.history) - 1
              popped == (old.history_index + 1) - kept
          IN  /\ new.history[Len(new.history)] = new.canvas
              /\ new.canvas = old.saves
              /\ new.history_index = Len(new.history) - 1
              /\ ~new.redo_enabled
              /\ popped >= 0
              /\ popped > 0 => Len(new.history) = 100
              /\ \A j \in 1..kept : new.history[j] = old.history[j + popped]]_vars

\* C30 witness: two undos and then a stroke: the two drawings undone are gone
\* from the history, which ends with the new one.
C30_Witness ==
    /\ main_window.resets = 0
    /\ main_window.history_index = Len(main_window.history) - 1
    /\ Len(main_window.history) >= 2
    /\ main_window.history[Len(main_window.history)]
         = main_window.history[Len(main_window.history) - 1] + 3

====
